---- MODULE Spec2Model ----
(***************************************************************************)
(* Model of the structural-analysis engine of SkillsWorkshop:              *)
(*   src/init_team/template/skills/analyze_existing_project.py             *)
(*   src/init_team/template/skills/architecture_validator.py               *)
(*                                                                         *)
(* Python strings are sequences of one-character strings, so that split,   *)
(* replace, startswith, endswith, "in" and sorted() are computed the way   *)
(* Python computes them.  A dict is a function, a set is a set, a list is  *)
(* a sequence.  Iteration over a dict or a set takes its elements in an    *)
(* arbitrary order, as CPython's hash order is not fixed across runs.      *)
(***************************************************************************)
EXTENDS Integers, Sequences, FiniteSets, TLC

VARIABLES
    pc,              \* position of main(): the stage that runs next
    modules,         \* project_info["modules"]: list of {name, path}
    files,           \* the source tree: the *.py files, each with its directory
    graph,           \* DependencyAnalyzer.graph / the graph handed to the detectors
    index_counter,   \* CycleDetector._tarjan_scc locals
    stack,
    lowlink,
    index,
    on_stack,
    sccs,
    frames,          \* the activation records of the recursive strongconnect
    cycles,          \* CycleDetector.cycles
    threshold,       \* GodModuleDetector.detect argument, in percent
    god_modules,     \* GodModuleDetector.god_modules
    layers,          \* ArchitectureConfig.layers
    module_to_layer, \* ArchitectureValidator.module_to_layer
    violations,      \* ArchitectureValidator.violations, main's arch_violations
    config_file,     \* what <project>/.vibekit.yaml holds, "absent" without it
    all_functions,   \* ComplexityAnalyzer.analyze local: the function records
    complexity_results, \* main's complexity_results
    data_file,       \* .vibekit/dependency_data.json has been written
    report_file,     \* .vibekit/analysis_report.md has been written
    exit_status,     \* the status the process ended with, "none" while it runs
    earlier_results, \* what earlier runs and earlier calls returned, in order
    running          \* the stage a scheduler of the stages dispatched, else "none"

vars == <<pc, modules, files, graph, index_counter, stack, lowlink, index,
          on_stack, sccs, frames, cycles, threshold, god_modules, layers,
          module_to_layer, violations, config_file, all_functions,
          complexity_results, data_file, report_file, exit_status,
          earlier_results, running>>

outputVars == <<config_file, all_functions, complexity_results, data_file,
                report_file, exit_status>>

auxVars == <<earlier_results, running>>

tarjanVars == <<index_counter, stack, lowlink, index, on_stack, sccs, frames>>

----------------------------------------------------------------------------
(* Bounds of the model. *)

MaxNodes == 3        \* modules of a graph handed to the cycle detector
MaxFiles == 3        \* source files of a scanned tree
MaxHubNodes == 4     \* modules of a graph whose edges lead to two hub modules
MaxLayers == 4       \* layers of an architecture configuration
MaxLevel == 4        \* highest level a layer is given

----------------------------------------------------------------------------
(* Python strings. *)

\* The characters the model uses, in code-point order.
CodePoints == <<"*", ".", "/", "a", "b", "c", "d", "e", "g", "i", "k", "l", "o",
                "p", "r", "s">>

Ord(ch) == CHOOSE i \in 1..Len(CodePoints) : CodePoints[i] = ch

\* str.__lt__: lexicographic by code point, a proper prefix is smaller.
RECURSIVE StrLess(_, _)
StrLess(s, t) ==
    IF t = <<>> THEN FALSE
    ELSE IF s = <<>> THEN TRUE
    ELSE IF Head(s) = Head(t) THEN StrLess(Tail(s), Tail(t))
    ELSE Ord(Head(s)) < Ord(Head(t))

\* sorted(iterable of str)
RECURSIVE Sorted(_)
Sorted(S) ==
    IF S = {} THEN <<>>
    ELSE LET m == CHOOSE x \in S : \A y \in S \ {x} : StrLess(x, y)
         IN  <<m>> \o Sorted(S \ {m})

Range(f) == {f[i] : i \in DOMAIN f}

\* dict.get(key, default)
Get(d, key, default) == IF key \in DOMAIN d THEN d[key] ELSE default

Min(a, b) == IF a < b THEN a ELSE b

\* str.startswith(prefix)
StartsWith(s, prefix) ==
    Len(prefix) <= Len(s) /\ SubSeq(s, 1, Len(prefix)) = prefix

\* str.endswith(suffix)
EndsWith(s, suffix) ==
    Len(suffix) <= Len(s) /\ SubSeq(s, Len(s) - Len(suffix) + 1, Len(s)) = suffix

\* "sub in s"
Contains(s, sub) ==
    \E i \in 0..(Len(s) - Len(sub)) : SubSeq(s, i + 1, i + Len(sub)) = sub

\* s.split(sep) for a separator of one character: the list of the pieces
\* between the separators.
RECURSIVE Split(_, _)
Split(s, sep) ==
    IF \A i \in DOMAIN s : s[i] # sep THEN <<s>>
    ELSE LET k == CHOOSE i \in DOMAIN s :
                    s[i] = sep /\ \A j \in 1..(i - 1) : s[j] # sep
         IN  <<SubSeq(s, 1, k - 1)>> \o Split(SubSeq(s, k + 1, Len(s)), sep)

\* s.replace(old, ""): every occurrence of old, from the left, is removed.
RECURSIVE Remove(_, _)
Remove(s, old) ==
    IF Len(s) < Len(old) THEN s
    ELSE IF SubSeq(s, 1, Len(old)) = old
         THEN Remove(SubSeq(s, Len(old) + 1, Len(s)), old)
         ELSE <<Head(s)>> \o Remove(Tail(s), old)

\* sep.join(parts)
RECURSIVE Join(_, _)
Join(parts, sep) ==
    IF parts = <<>> THEN <<>>
    ELSE IF Len(parts) = 1 THEN parts[1]
    ELSE parts[1] \o <<sep>> \o Join(Tail(parts), sep)

\* The injective sequences over S: the orders an iteration over S can take.
Perms(S) ==
    {o \in [1..Cardinality(S) -> S] : \A i, j \in 1..Cardinality(S) : o[i] = o[j] => i = j}

\* The names a scan can give to modules.
NamePool == << <<"a">>, <<"b">>, <<"a", "b">>, <<"c">>, <<"d">>, <<"e">> >>

----------------------------------------------------------------------------
(* CycleDetector *)

Nodes == {NamePool[i] : i \in 1..MaxNodes}

\* The graphs DependencyAnalyzer.analyze() returns: every module is a key,
\* every dependency is a module, no module depends on itself.
Graphs(N) == {g \in [N -> SUBSET N] : \A n \in N : n \notin g[n]}

\* strongconnect(node), lines 229-233: the entry of a call made while the
\* calls of callers are active.
Enter(node, callers) ==
    /\ index' = (node :> index_counter) @@ index
    /\ lowlink' = (node :> index_counter) @@ lowlink
    /\ index_counter' = index_counter + 1
    /\ stack' = Append(stack, node)
    /\ on_stack' = on_stack \cup {node}
    /\ frames' = Append(callers, [node |-> node, todo |-> Get(graph, node, {})])
    /\ UNCHANGED sccs

\* _tarjan_scc, lines 254-256: the outer loop calls strongconnect on a node
\* that has no index yet.
TarjanRoot ==
    /\ pc = "cycle"
    /\ UNCHANGED auxVars
    /\ frames = <<>>
    /\ \E node \in DOMAIN graph \ DOMAIN index : Enter(node, frames)
    /\ UNCHANGED <<pc, modules, files, graph, cycles, threshold, god_modules,
                   layers, module_to_layer, violations>>
    /\ UNCHANGED outputVars

\* A mutation of NeighborOnStack: the lowlink is lowered by every neighbour
\* that has an index, also by one whose component is already complete.
NeighborOnStackAlways(neighbor) == TRUE

\* "neighbor in on_stack", line 240
NeighborOnStack(neighbor) == neighbor \in on_stack

\* strongconnect, lines 236-241: one iteration of the loop over the neighbours
\* of the node of the innermost call.
TarjanNeighbor ==
    /\ pc = "cycle"
    /\ UNCHANGED auxVars
    /\ frames # <<>>
    /\ LET top == frames[Len(frames)]
           node == top.node
       IN  /\ top.todo # {}
           /\ \E neighbor \in top.todo :
                LET rest == [frames EXCEPT ![Len(frames)].todo = top.todo \ {neighbor}]
                IN  \/ /\ neighbor \notin DOMAIN index
                       /\ Enter(neighbor, rest)
                    \/ /\ neighbor \in DOMAIN index
                       /\ NeighborOnStack(neighbor)
                       /\ lowlink' = [lowlink EXCEPT
                                        ![node] = Min(lowlink[node], index[neighbor])]
                       /\ frames' = rest
                       /\ UNCHANGED <<index, index_counter, stack, on_stack, sccs>>
                    \/ /\ neighbor \in DOMAIN index
                       /\ ~NeighborOnStack(neighbor)
                       /\ frames' = rest
                       /\ UNCHANGED <<index, index_counter, stack, on_stack,
                                      lowlink, sccs>>
    /\ UNCHANGED <<pc, modules, files, graph, cycles, threshold, god_modules,
                   layers, module_to_layer, violations>>
    /\ UNCHANGED outputVars

\* The position in the stack of the node w: the pop loop of lines 246-251
\* removes everything from there to the top.
StackPos(w) == CHOOSE i \in 1..Len(stack) : stack[i] = w

\* lowlink[node] == index[node], line 244
IsRoot(node) == lowlink[node] = index[node]

\* strongconnect, lines 243-252 and the return to the caller (line 239): the
\* loop over the neighbours is over; a root pops its component; the caller
\* takes the minimum of its lowlink and the callee's.
TarjanReturn ==
    /\ pc = "cycle"
    /\ UNCHANGED auxVars
    /\ frames # <<>>
    /\ LET top == frames[Len(frames)]
           node == top.node
           k == StackPos(node)
           scc == {stack[i] : i \in k..Len(stack)}
       IN  /\ top.todo = {}
           /\ IF IsRoot(node)
              THEN /\ stack' = SubSeq(stack, 1, k - 1)
                   /\ on_stack' = on_stack \ scc
                   /\ sccs' = Append(sccs, scc)
              ELSE UNCHANGED <<stack, on_stack, sccs>>
           /\ frames' = SubSeq(frames, 1, Len(frames) - 1)
           /\ IF Len(frames) > 1
              THEN LET caller == frames[Len(frames) - 1].node
                   IN  lowlink' = [lowlink EXCEPT
                                     ![caller] = Min(lowlink[caller], lowlink[node])]
              ELSE UNCHANGED lowlink
    /\ UNCHANGED <<index, index_counter>>
    /\ UNCHANGED <<pc, modules, files, graph, cycles, threshold, god_modules,
                   layers, module_to_layer, violations>>
    /\ UNCHANGED outputVars

\* A mutation of ClosePath: the path ends at the last module before start.
LeavePathOpen(path, start) == path

\* "path + [start]", line 272
ClosePath(path, start) == Append(path, start)

\* _find_cycle_path, lines 265-278: the paths the breadth-first search can
\* return.  BfsQueue is the loop over the queue of (node, path) pairs taken
\* from the left, BfsNeighbors the loop over the neighbours of one node in
\* the order its set yields them; list(scc), the result when the queue runs
\* empty, begins with start as list(scc)[0] did.
RECURSIVE BfsQueue(_, _, _, _)
RECURSIVE BfsNeighbors(_, _, _, _, _, _)
BfsQueue(scc, start, queue, visited) ==
    IF queue = <<>>
    THEN {o \in Perms(scc) : o[1] = start}
    ELSE UNION {BfsNeighbors(scc, start, Tail(queue), visited, Head(queue)[2], order) :
                   order \in Perms(Get(graph, Head(queue)[1], {}))}

BfsNeighbors(scc, start, queue, visited, path, order) ==
    IF order = <<>> THEN BfsQueue(scc, start, queue, visited)
    ELSE LET neighbor == Head(order)
         IN  IF neighbor \in scc /\ neighbor = start /\ Len(path) > 1
             THEN {ClosePath(path, start)}
             ELSE IF neighbor \in scc /\ neighbor \notin visited
                  THEN BfsNeighbors(scc, start,
                                    Append(queue, <<neighbor, Append(path, neighbor)>>),
                                    visited \cup {neighbor}, path, Tail(order))
                  ELSE BfsNeighbors(scc, start, queue, visited, path, Tail(order))

\* _find_cycle_path, lines 260-278: start is list(scc)[0], any module of scc.
FindCyclePath(scc) ==
    UNION {BfsQueue(scc, start, << <<start, <<start>>>> >>, {start}) : start \in scc}

\* The entry detect() appends for one component, lines 204-210.
CycleEntry(scc, cycle_path) ==
    [modules |-> Sorted(scc), path |-> cycle_path, severity |-> "P0",
     size |-> Cardinality(scc)]

\* A mutation of IsCycle: components of one module are reported too.
IsCycleAnySize(scc) == Cardinality(scc) >= 1

\* "len(scc) > 1", line 203
IsCycle(scc) == Cardinality(scc) > 1

\* detect(), lines 202-210: the lists of entries the loop can append, one
\* entry per component of more than one module, in the order _tarjan_scc
\* returned them.
RECURSIVE CycleEntries(_)
CycleEntries(ss) ==
    IF ss = <<>> THEN {<<>>}
    ELSE LET first == IF IsCycle(Head(ss))
                      THEN {<<CycleEntry(Head(ss), cycle_path)>> :
                               cycle_path \in FindCyclePath(Head(ss))}
                      ELSE {<<>>}
         IN  {entry \o rest : entry \in first, rest \in CycleEntries(Tail(ss))}

\* detect(), lines 199-217, once _tarjan_scc has returned (line 258): every
\* node of the graph has an index and no call is active.
CycleDetect ==
    /\ pc = "cycle"
    /\ UNCHANGED auxVars
    /\ frames = <<>>
    /\ DOMAIN graph \subseteq DOMAIN index
    /\ \E entries \in CycleEntries(sccs) : cycles' = cycles \o entries
    /\ pc' = "god"
    /\ UNCHANGED tarjanVars
    /\ UNCHANGED <<modules, files, graph, threshold, god_modules, layers,
                   module_to_layer, violations>>
    /\ UNCHANGED outputVars

EmptyDict == <<>>

\* main() before its first stage: nothing analysed, nothing written.  The
\* stages checked on their own run without a configuration file unless they
\* say otherwise.
RunStarts ==
    /\ all_functions = <<>>
    /\ complexity_results = EmptyDict
    /\ data_file = FALSE
    /\ report_file = FALSE
    /\ exit_status = "none"
    /\ earlier_results = <<>>
    /\ running = "none"

InitCycle ==
    /\ pc = "cycle"
    /\ modules = <<>>
    /\ files = {}
    /\ graph \in Graphs(Nodes)
    /\ index_counter = 0
    /\ stack = <<>>
    /\ lowlink = EmptyDict
    /\ index = EmptyDict
    /\ on_stack = {}
    /\ sccs = <<>>
    /\ frames = <<>>
    /\ cycles = <<>>
    /\ threshold = 30
    /\ god_modules = <<>>
    /\ layers = <<>>
    /\ module_to_layer = EmptyDict
    /\ violations = <<>>
    /\ config_file = "absent"
    /\ RunStarts

NextCycle == TarjanRoot \/ TarjanNeighbor \/ TarjanReturn \/ CycleDetect

SpecCycle == InitCycle /\ [][NextCycle]_vars

----------------------------------------------------------------------------
(* The source tree.  A file is [dir, ok, body]: dir is the list of the
   directory names from the project root to the file, ok says whether
   open() and ast.parse() succeed on it, body is the list of the import
   statements ast.walk() finds in it.  A statement is
   [form |-> "ImportFrom", module |-> m], with m = <<>> for a module of None
   (from . import x), or [form |-> "Import", names |-> <<alias, ...>>]. *)

SrcDir == <<"s", "r", "c">>

\* The directories of the model's trees: a, b, src, src/a.
TreeDirs == << <<NamePool[1]>>, <<NamePool[2]>>, <<SrcDir>>, <<SrcDir, NamePool[1]>> >>

\* os: an identifier that names no module of any tree.
UnknownName == <<"o", "s">>

ImportFrom(m) == [form |-> "ImportFrom", module |-> m]
Import(ns) == [form |-> "Import", names |-> ns]

\* The contents of the model's files: [ok, body].  A file holds at most one
\* import statement; the file that does not parse holds the text of one.
FileContents ==
    << [ok |-> TRUE, body |-> <<>>],
       [ok |-> FALSE, body |-> <<ImportFrom(NamePool[2])>>],
       [ok |-> TRUE, body |-> <<ImportFrom(<<>>)>>],
       [ok |-> TRUE, body |-> <<ImportFrom(NamePool[1])>>],
       [ok |-> TRUE, body |-> <<ImportFrom(NamePool[2])>>],
       [ok |-> TRUE, body |-> <<ImportFrom(NamePool[2] \o <<".">> \o NamePool[1])>>],
       [ok |-> TRUE, body |-> <<ImportFrom(UnknownName \o <<".">> \o NamePool[1])>>],
       [ok |-> TRUE, body |-> <<Import(<<NamePool[1]>>)>>],
       [ok |-> TRUE, body |-> <<Import(<<NamePool[2] \o <<".">> \o NamePool[1]>>)>>],
       [ok |-> TRUE, body |-> <<Import(<<UnknownName>>)>>],
       [ok |-> TRUE, body |-> <<Import(<<NamePool[1], NamePool[2]>>)>>] >>

\* The k-th file of the model: every content in every directory.
SourceFile(k) ==
    LET c == FileContents[((k - 1) % Len(FileContents)) + 1]
    IN  [dir |-> TreeDirs[((k - 1) \div Len(FileContents)) + 1],
         ok |-> c.ok, body |-> c.body]

\* The ways to pick at most MaxFiles files: the numbers of the files picked,
\* in increasing order, then zeros.
FilePicks ==
    {c \in [1..MaxFiles -> 0..(Len(TreeDirs) * Len(FileContents))] :
        \A i \in 1..(MaxFiles - 1) : c[i + 1] = 0 \/ (c[i] # 0 /\ c[i] < c[i + 1])}

\* The tree of the files picked.
Tree(c) == {SourceFile(c[i]) : i \in {j \in DOMAIN c : c[j] # 0}}

----------------------------------------------------------------------------
(* ProjectScanner *)

\* code_dirs, line 105
code_dirs == << SrcDir, <<"a", "p", "p">>, <<"l", "i", "b">>, <<"p", "k", "g">>, <<>> >>

\* Path("x/y") and str(path): a relative path and its components.
PathParts(path) == IF path = <<>> THEN <<>> ELSE Split(path, "/")
PathStr(parts) == Join(parts, "/")

\* project_path / code_dir: "" adds no component.
SearchPath(code_dir) == IF code_dir = <<>> THEN <<>> ELSE <<code_dir>>

IsPrefix(p, q) == Len(p) <= Len(q) /\ SubSeq(q, 1, Len(p)) = p

\* search_path.iterdir(), line 113, narrowed by item.is_dir(): the
\* directories directly in search_path.
SubDirs(search_path) ==
    {SubSeq(f.dir, 1, Len(search_path) + 1) :
        f \in {g \in files : IsPrefix(search_path, g.dir) /\ Len(g.dir) > Len(search_path)}}

\* Lines 114-119: the directory is a module when its name does not start
\* with a dot and it holds __init__.py or another *.py file directly.
IsModuleDir(item) ==
    /\ ~StartsWith(item[Len(item)], <<".">>)
    /\ \E f \in files : f.dir = item

\* Lines 120-124: the entry of one module.
ModuleEntry(item) == [name |-> item[Len(item)], path |-> PathStr(item)]

\* _discover_modules, lines 107-126: the lists it can return; the code
\* directories in the order of code_dirs, the directories of each in the
\* order iterdir() yields them.
RECURSIVE Discover(_)
Discover(cds) ==
    IF cds = <<>> THEN {<<>>}
    ELSE LET items == {d \in SubDirs(SearchPath(Head(cds))) : IsModuleDir(d)}
         IN  {[i \in 1..Cardinality(items) |-> ModuleEntry(o[i])] \o rest :
                 o \in Perms(items), rest \in Discover(Tail(cds))}

\* A mutation of AfterScan: the run goes on without a module.
AfterScanGoesOn(found) == "analyze"

\* main(), lines 765-767: "exit1" is sys.exit(1) for an empty module list.
AfterScan(found) == IF found = <<>> THEN "exit1" ELSE "analyze"

\* scan(), lines 61-78, and main(), lines 762-767: an empty module list ends
\* the run with status 1.
Scan ==
    /\ pc = "scan"
    /\ UNCHANGED auxVars
    /\ \E found \in Discover(code_dirs) :
          /\ modules' = found
          /\ pc' = AfterScan(found)
    /\ exit_status' = IF pc' = "exit1" THEN 1 ELSE exit_status
    /\ UNCHANGED tarjanVars
    /\ UNCHANGED <<files, graph, cycles, threshold, god_modules, layers,
                   module_to_layer, violations>>
    /\ UNCHANGED <<config_file, all_functions, complexity_results, data_file,
                   report_file>>

----------------------------------------------------------------------------
(* DependencyAnalyzer *)

\* self.modules = {m["name"]: m for m in modules}, line 134: a later entry
\* of a name replaces an earlier one.
SelfModules ==
    [n \in {modules[i].name : i \in DOMAIN modules} |->
        modules[CHOOSE i \in DOMAIN modules :
                   /\ modules[i].name = n
                   /\ \A j \in DOMAIN modules : modules[j].name = n => j <= i]]

\* Mutations of IsDependency: the test against the module's own name is
\* missing; the test for a known module is missing.
IsDependencySelfToo(dep_module, module_name) == dep_module \in DOMAIN SelfModules
IsDependencyUnknownToo(dep_module, module_name) == dep_module # module_name

\* "dep_module in self.modules and dep_module != module_name", lines 166, 173
IsDependency(dep_module, module_name) ==
    dep_module \in DOMAIN SelfModules /\ dep_module # module_name

\* A mutation of LeadingName: the last identifier of the dotted name.
LastName(dotted) == Split(dotted, ".")[Len(Split(dotted, "."))]

\* name.split('.')[0], lines 165, 172
LeadingName(dotted) == Split(dotted, ".")[1]

\* Lines 161-174: the dependencies one import statement adds.
StmtDependencies(stmt, module_name) ==
    IF stmt.form = "ImportFrom"
    THEN IF stmt.module # <<>> /\ IsDependency(LeadingName(stmt.module), module_name)
         THEN {LeadingName(stmt.module)}
         ELSE {}
    ELSE {LeadingName(stmt.names[i]) : i \in
             {j \in DOMAIN stmt.names :
                 IsDependency(LeadingName(stmt.names[j]), module_name)}}

\* A mutation of FileParses: a file that does not parse is read all the same.
FileParsesAlways(f) == TRUE

\* Lines 155-160 and 176-178: open() and ast.parse() raise nothing.
FileParses(f) == f.ok

\* module_path.rglob("*.py"), line 154: the files in module_path and beneath.
FilesBeneath(module_path) ==
    {f \in files : IsPrefix(PathParts(module_path), f.dir)}

\* _extract_module_dependencies, lines 149-180
ExtractModuleDependencies(module_path, module_name) ==
    UNION {UNION {StmtDependencies(f.body[i], module_name) : i \in DOMAIN f.body} :
             f \in {g \in FilesBeneath(module_path) : FileParses(g)}}

\* A mutation of Analyze: only a module with a dependency becomes a key of
\* the graph.
AnalyzeEdgesOnly ==
    /\ pc = "analyze"
    /\ UNCHANGED auxVars
    /\ graph' = [module_name \in {n \in DOMAIN SelfModules :
                                     ExtractModuleDependencies(SelfModules[n].path, n) # {}} |->
                    ExtractModuleDependencies(SelfModules[module_name].path, module_name)]
    /\ pc' = "cycle"
    /\ UNCHANGED tarjanVars
    /\ UNCHANGED <<modules, files, cycles, threshold, god_modules, layers,
                   module_to_layer, violations>>
    /\ UNCHANGED outputVars

\* analyze(), lines 137-147
Analyze ==
    /\ pc = "analyze"
    /\ UNCHANGED auxVars
    /\ graph' = [module_name \in DOMAIN SelfModules |->
                    ExtractModuleDependencies(SelfModules[module_name].path, module_name)]
    /\ pc' = "cycle"
    /\ UNCHANGED tarjanVars
    /\ UNCHANGED <<modules, files, cycles, threshold, god_modules, layers,
                   module_to_layer, violations>>
    /\ UNCHANGED outputVars

InitBuild ==
    /\ pc = "scan"
    /\ modules = <<>>
    /\ \E c \in FilePicks : files = Tree(c)
    /\ graph = EmptyDict
    /\ index_counter = 0
    /\ stack = <<>>
    /\ lowlink = EmptyDict
    /\ index = EmptyDict
    /\ on_stack = {}
    /\ sccs = <<>>
    /\ frames = <<>>
    /\ cycles = <<>>
    /\ threshold = 30
    /\ god_modules = <<>>
    /\ layers = <<>>
    /\ module_to_layer = EmptyDict
    /\ violations = <<>>
    /\ config_file = "absent"
    /\ RunStarts

NextBuild == Scan \/ Analyze

SpecBuild == InitBuild /\ [][NextBuild]_vars

----------------------------------------------------------------------------
(* GodModuleDetector *)

\* The first n names of the pool.
FirstNames(n) == {NamePool[i] : i \in 1..n}

\* The graphs over N whose edges all lead to the first two modules.
HubGraphs(N) ==
    {g \in [N -> SUBSET (N \cap {NamePool[1], NamePool[2]})] : \A n \in N : n \notin g[n]}

\* The graphs handed to the god-module detector.
GodGraphs ==
    UNION {Graphs(FirstNames(n)) : n \in 1..MaxNodes}
    \cup UNION {HubGraphs(FirstNames(n)) : n \in 1..MaxHubNodes}

\* The thresholds of the model, in percent: 0.0, 0.3 (the default and the
\* value main() passes), 0.5 and 1.0.  For these, total_modules * threshold
\* in IEEE double arithmetic compares with an integer as the exact product.
Thresholds == {0, 30, 50, 100}

\* in_degrees, lines 297-300: one count per module that some module depends
\* on, one increment per dependency set that holds it.
InDegrees ==
    [dep \in UNION Range(graph) |->
        Cardinality({m \in DOMAIN graph : dep \in graph[m]})]

\* A mutation of OverThreshold: the comparison is not strict.
AtOrOverThreshold(in_degree, total_modules) ==
    in_degree * 100 >= total_modules * threshold

\* "in_degree > threshold_count", lines 303-308, with the threshold in percent
OverThreshold(in_degree, total_modules) ==
    in_degree * 100 > total_modules * threshold

\* A mutation of Dependents: the modules the reported module depends on.
Dependencies(module) == Get(graph, module, {})

\* "[m for m, deps in self.graph.items() if module in deps]", line 309
Dependents(module) == {m \in DOMAIN graph : module \in graph[m]}

\* round(x, 1) of x = num / den * 100, in tenths: to the nearest tenth, a
\* tie to the even one.
RoundTenths(num, den) ==
    LET q == (num * 1000) \div den
        r == (num * 1000) % den
    IN  IF 2 * r > den \/ (2 * r = den /\ q % 2 = 1) THEN q + 1 ELSE q

\* The entry detect() appends for one module, lines 310-316;
\* dependency_rate is in tenths of a percent.
GodEntry(module) ==
    [name |-> module,
     dependents_count |-> InDegrees[module],
     dependents |-> Sorted(Dependents(module)),
     dependency_rate |-> RoundTenths(InDegrees[module], Cardinality(DOMAIN graph)),
     severity |-> "P1"]

\* A mutation of GodDetect: the in-degrees are counted by popping the
\* dependencies from their sets, which leaves every set of the graph empty.
GodDetectPopsDependencies ==
    /\ pc = "god"
    /\ UNCHANGED auxVars
    /\ LET flagged == {m \in DOMAIN InDegrees :
                          OverThreshold(InDegrees[m], Cardinality(DOMAIN graph))}
       IN  \E o \in Perms(flagged) :
              god_modules' = god_modules \o [i \in 1..Cardinality(flagged) |-> GodEntry(o[i])]
    /\ graph' = [m \in DOMAIN graph |-> {}]
    /\ pc' = "arch"
    /\ UNCHANGED tarjanVars
    /\ UNCHANGED <<modules, files, cycles, threshold, layers,
                   module_to_layer, violations>>
    /\ UNCHANGED outputVars

\* detect(threshold), lines 288-323: the entries are appended in the order
\* in_degrees holds the modules.
GodDetect ==
    /\ pc = "god"
    /\ UNCHANGED auxVars
    /\ LET flagged == {m \in DOMAIN InDegrees :
                          OverThreshold(InDegrees[m], Cardinality(DOMAIN graph))}
       IN  \E o \in Perms(flagged) :
              god_modules' = god_modules \o [i \in 1..Cardinality(flagged) |-> GodEntry(o[i])]
    /\ pc' = "arch"
    /\ UNCHANGED tarjanVars
    /\ UNCHANGED <<modules, files, graph, cycles, threshold, layers,
                   module_to_layer, violations>>
    /\ UNCHANGED outputVars

InitGod ==
    /\ pc = "god"
    /\ modules = <<>>
    /\ files = {}
    /\ graph \in GodGraphs
    /\ index_counter = 0
    /\ stack = <<>>
    /\ lowlink = EmptyDict
    /\ index = EmptyDict
    /\ on_stack = {}
    /\ sccs = <<>>
    /\ frames = <<>>
    /\ cycles = <<>>
    /\ threshold \in Thresholds
    /\ god_modules = <<>>
    /\ layers = <<>>
    /\ module_to_layer = EmptyDict
    /\ violations = <<>>
    /\ config_file = "absent"
    /\ RunStarts

NextGod == GodDetect

SpecGod == InitGod /\ [][NextGod]_vars

----------------------------------------------------------------------------
(* ArchitectureConfig and ArchitectureValidator *)

\* The modules of the model's architecture checks: a at a, b at src/b,
\* ab at ab.
ArchModules ==
    << [name |-> NamePool[1], path |-> NamePool[1]],
       [name |-> NamePool[2], path |-> SrcDir \o <<"/">> \o NamePool[2]],
       [name |-> NamePool[3], path |-> NamePool[3]] >>

ArchNames == {ArchModules[i].name : i \in DOMAIN ArchModules}

LayerNames == <<"api", "service", "repository", "database", "extra">>

\* The patterns of the i-th configured layer: "a" (a module name),
\* "**/a/**", "**/ab", "src/**", and for a fifth layer "b" and "a/**".
LayerPatterns ==
    << << <<"a">> >>,
       << <<"*", "*", "/", "a", "/", "*", "*">> >>,
       << <<"*", "*", "/", "a", "b">> >>,
       << <<"s", "r", "c", "/", "*", "*">> >>,
       << <<"b">>, <<"a", "/", "*", "*">> >> >>

\* The layer lists a configuration file can hold: the i-th layer has the
\* i-th name and patterns and any level.
LayerConfigs ==
    UNION {{[i \in 1..n |-> [name |-> LayerNames[i], level |-> lv[i],
                              patterns |-> LayerPatterns[i]]] :
               lv \in [1..n -> 1..MaxLevel]} : n \in 1..MaxLayers}

\* _match_pattern, lines 68-93
MatchPattern(module_name, module_path, pattern) ==
    \/ pattern = module_name
    \/ /\ Contains(pattern, <<"*", "*">>)
       /\ StartsWith(module_path, Remove(pattern, <<"/", "*", "*">>))
    \/ /\ StartsWith(pattern, <<"*", "*", "/">>)
       /\ EndsWith(pattern, <<"/", "*", "*">>)
       /\ Contains(module_path,
                   Remove(Remove(pattern, <<"*", "*", "/">>), <<"/", "*", "*">>))
    \/ /\ StartsWith(pattern, <<"*", "*", "/">>)
       /\ EndsWith(module_path, Remove(pattern, <<"*", "*", "/">>))

\* The loop over the patterns of one layer, lines 58-64, for each pattern
\* list and module of the model, computed once.
PatternsMatch ==
    [patterns \in Range(LayerPatterns), m \in Range(ArchModules) |->
        \E k \in DOMAIN patterns : MatchPattern(m.name, m.path, patterns[k])]

\* Lines 58-64: some pattern of the layer matches the module.
LayerMatches(layer, module_name, module_path) ==
    LET m == [name |-> module_name, path |-> module_path]
    IN  IF <<layer.patterns, m>> \in DOMAIN PatternsMatch
        THEN PatternsMatch[layer.patterns, m]
        ELSE \E k \in DOMAIN layer.patterns :
                MatchPattern(module_name, module_path, layer.patterns[k])

\* list.sort(key=level, reverse=True), line 49: by descending level, layers
\* of equal level in the order they had.
RECURSIVE SortByLevelDescending(_)
SortByLevelDescending(ls) ==
    IF ls = <<>> THEN <<>>
    ELSE LET k == CHOOSE i \in DOMAIN ls :
                    /\ \A j \in DOMAIN ls : ls[j].level <= ls[i].level
                    /\ \A j \in 1..(i - 1) : ls[j].level < ls[i].level
         IN  <<ls[k]>> \o SortByLevelDescending(
                              SubSeq(ls, 1, k - 1) \o SubSeq(ls, k + 1, Len(ls)))

\* A mutation of SortLayers: the layers stay in the order of the file.
KeepLayerOrder(ls) == ls

\* _load_config, lines 48-49
SortLayers(ls) == SortByLevelDescending(ls)

\* A mutation of GetLayerByModule: a module no layer matches falls into the
\* last layer of the list.
GetLayerOrLast(ls, module_name, module_path) ==
    LET matches == [i \in DOMAIN ls |-> LayerMatches(ls[i], module_name, module_path)]
    IN  IF \E i \in DOMAIN ls : matches[i]
        THEN CHOOSE i \in DOMAIN ls :
                matches[i] /\ \A j \in 1..(i - 1) : ~matches[j]
        ELSE Len(ls)

\* get_layer_by_module, lines 55-66, over the layer list ls: the position of
\* the first layer with a matching pattern, 0 for None.
GetLayerByModule(ls, module_name, module_path) ==
    LET matches == [i \in DOMAIN ls |-> LayerMatches(ls[i], module_name, module_path)]
    IN  IF \E i \in DOMAIN ls : matches[i]
        THEN CHOOSE i \in DOMAIN ls :
                matches[i] /\ \A j \in 1..(i - 1) : ~matches[j]
        ELSE 0

\* _map_modules_to_layers, lines 143-160: a later module of the same name
\* that matches a layer replaces the entry of an earlier one.
MapModulesToLayers(ls, ms) ==
    LET hit == [i \in DOMAIN ms |-> GetLayerByModule(ls, ms[i].name, ms[i].path)]
        mapped == {i \in DOMAIN ms : hit[i] # 0}
    IN  [n \in {ms[i].name : i \in mapped} |->
            LET last == CHOOSE i \in mapped :
                           /\ ms[i].name = n
                           /\ \A j \in mapped : ms[j].name = n => j <= i
                layer == ls[hit[last]]
            IN  [name |-> layer.name, level |-> layer.level, description |-> ""]]

\* A mutation of IsBetween: the two end levels count as skipped.
IsBetweenOrEqual(level, from_level, to_level) ==
    to_level <= level /\ level <= from_level

\* "to_level < level < from_level", line 245
IsBetween(level, from_level, to_level) ==
    to_level < level /\ level < from_level

\* _get_skipped_layers, lines 239-248
GetSkippedLayers(ls, from_level, to_level) ==
    LET Skipped(layer) == IsBetween(layer.level, from_level, to_level)
        found == SelectSeq(ls, Skipped)
    IN  [i \in 1..Len(found) |-> found[i].name]

\* A mutation of IsSkip: a dependency on the next lower layer counts.
IsSkipFromOne(layer_diff) == layer_diff >= 1

\* "layer_diff > 1", line 184
IsSkip(layer_diff) == layer_diff > 1

\* The violation _detect_skip_layer appends, lines 190-201.
SkipViolation(ls, m2l, module, dep) ==
    [type |-> "skip_layer", severity |-> "P0",
     from_module |-> module, from_layer |-> m2l[module].name,
     from_level |-> m2l[module].level,
     to_module |-> dep, to_layer |-> m2l[dep].name, to_level |-> m2l[dep].level,
     layer_diff |-> m2l[module].level - m2l[dep].level,
     skipped_layers |-> GetSkippedLayers(ls, m2l[module].level, m2l[dep].level)]

\* The violation _detect_reverse_dependency appends, lines 225-235; the
\* direction text is kept as its four parts.
ReverseViolation(m2l, module, dep) ==
    [type |-> "reverse_dependency", severity |-> "P0",
     from_module |-> module, from_layer |-> m2l[module].name,
     from_level |-> m2l[module].level,
     to_module |-> dep, to_layer |-> m2l[dep].name, to_level |-> m2l[dep].level,
     direction |-> <<m2l[module].name, m2l[module].level,
                     m2l[dep].name, m2l[dep].level>>]

\* The keys of the graph in the order of the dict: analyze() inserts them
\* in the order of the module list.
RECURSIVE GraphKeys(_, _)
GraphKeys(ms, seen) ==
    IF ms = <<>> THEN <<>>
    ELSE (IF Head(ms).name \in seen \/ Head(ms).name \notin DOMAIN graph
          THEN <<>> ELSE <<Head(ms).name>>)
         \o GraphKeys(Tail(ms), seen \cup {Head(ms).name})

\* The (module, dep) pairs in the order of "for module, deps in
\* graph.items(): for dep in deps" (lines 170-178, 213-221), both ends
\* classified; dep_order is the order in which the sets yield their elements.
ClassifiedEdges(keys, dep_order, m2l) ==
    LET n == Len(dep_order)
        pairs == [k \in 1..(Len(keys) * n) |->
                     <<keys[((k - 1) \div n) + 1], dep_order[((k - 1) % n) + 1]>>]
        IsEdge(e) == /\ e[1] \in DOMAIN m2l
                     /\ e[2] \in graph[e[1]]
                     /\ e[2] \in DOMAIN m2l
    IN  SelectSeq(pairs, IsEdge)

\* _detect_skip_layer, lines 162-203
DetectSkipLayer(edges, ls, m2l) ==
    LET Skips(e) == IsSkip(m2l[e[1]].level - m2l[e[2]].level)
        found == SelectSeq(edges, Skips)
    IN  [i \in 1..Len(found) |-> SkipViolation(ls, m2l, found[i][1], found[i][2])]

\* A mutation of IsReverse: a dependency within one level counts.
IsReverseOrSameLevel(module_level, dep_level) == dep_level >= module_level

\* A mutation of IsReverse: a dependency on any other level counts.
IsOtherLevel(module_level, dep_level) == dep_level # module_level

\* "dep_layer['level'] > module_layer['level']", line 224
IsReverse(module_level, dep_level) == dep_level > module_level

\* _detect_reverse_dependency, lines 205-237
DetectReverseDependency(edges, m2l) ==
    LET Reverses(e) == IsReverse(m2l[e[1]].level, m2l[e[2]].level)
        found == SelectSeq(edges, Reverses)
    IN  [i \in 1..Len(found) |-> ReverseViolation(m2l, found[i][1], found[i][2])]

\* main(), lines 799-800: ArchitectureValidator(config_file), whose
\* constructor loads and sorts the layers (lines 28-49, 99-102), then
\* validate(graph, modules), lines 104-141.
Validate ==
    /\ pc = "arch"
    /\ UNCHANGED auxVars
    /\ config_file = "mapping"
    /\ layers' = SortLayers(layers)
    /\ module_to_layer' = IF layers' = <<>>
                          THEN module_to_layer
                          ELSE MapModulesToLayers(layers', modules)
    /\ IF layers' = <<>> \/ DOMAIN module_to_layer' = {}
       THEN UNCHANGED violations
       ELSE \E dep_order \in Perms(UNION Range(graph) \cap DOMAIN module_to_layer') :
               LET edges == ClassifiedEdges(GraphKeys(modules, {}), dep_order,
                                            module_to_layer')
               IN  violations' = DetectSkipLayer(edges, layers', module_to_layer')
                                 \o DetectReverseDependency(edges, module_to_layer')
    /\ pc' = "complexity"
    /\ UNCHANGED tarjanVars
    /\ UNCHANGED <<modules, files, graph, cycles, threshold, god_modules>>
    /\ UNCHANGED outputVars

InitArch ==
    /\ pc = "arch"
    /\ modules = ArchModules
    /\ files = {}
    /\ graph \in Graphs(ArchNames)
    /\ index_counter = 0
    /\ stack = <<>>
    /\ lowlink = EmptyDict
    /\ index = EmptyDict
    /\ on_stack = {}
    /\ sccs = <<>>
    /\ frames = <<>>
    /\ cycles = <<>>
    /\ threshold = 30
    /\ god_modules = <<>>
    /\ layers \in LayerConfigs
    /\ module_to_layer = EmptyDict
    /\ violations = <<>>
    /\ config_file = "mapping"
    /\ RunStarts

NextArch == Validate

SpecArch == InitArch /\ [][NextArch]_vars

----------------------------------------------------------------------------
(* ComplexityAnalyzer (complexity_analyzer.py).  A file the analyzer reads
   is [dir, name, ok, body, content, defs]: content is the list of the
   file's lines, defs the function definitions ast.walk(tree) finds, in its
   order.  A definition is [kind, name, lineno, end_lineno, walk], walk being
   the list of the nodes ast.walk(node) yields, each [kind, values] with
   values the number of operands of a BoolOp. *)

Node(kind) == [kind |-> kind, values |-> 0]
BoolOp(n) == [kind |-> "BoolOp", values |-> n]

\* A mutation of BoolOpComplexity: every operand of the expression counts.
BoolOpOperands(child) == child.values

\* "len(child.values) - 1", line 165
BoolOpComplexity(child) == child.values - 1

\* Lines 155-171: what one node of the walk adds to the complexity.
NodeComplexity(child) ==
    IF child.kind = "If" THEN 1
    ELSE IF child.kind \in {"For", "While"} THEN 1
    ELSE IF child.kind = "ExceptHandler" THEN 1
    ELSE IF child.kind = "BoolOp" THEN BoolOpComplexity(child)
    ELSE IF child.kind \in {"ListComp", "DictComp", "SetComp", "GeneratorExp"} THEN 1
    ELSE IF child.kind = "Assert" THEN 1
    ELSE 0

\* The loop of lines 153-171 over the rest of the walk.
RECURSIVE WalkComplexity(_, _)
WalkComplexity(walk, complexity) ==
    IF walk = <<>> THEN complexity
    ELSE WalkComplexity(Tail(walk), complexity + NodeComplexity(Head(walk)))

\* _calculate_complexity, lines 145-173
CalculateComplexity(node) == WalkComplexity(node.walk, 1)

\* _calculate_lines, lines 175-179; a line number of None is 0 here.
CalculateLines(node) ==
    IF node.end_lineno # 0 /\ node.lineno # 0
    THEN node.end_lineno - node.lineno + 1
    ELSE 0

\* The characters str.split() splits at.
Whitespace == {" ", "\n", "\t", "\r"}

\* ''.join(source.split()), line 184: the text without its whitespace.
Normalize(source) ==
    LET IsInk(ch) == ch \notin Whitespace
    IN  SelectSeq(source, IsInk)

\* Two normalized texts with one md5 prefix: def c():x and def c():y.
CollidingTexts ==
    { <<"d", "e", "f", "c", "(", ")", ":", "x">>,
      <<"d", "e", "f", "c", "(", ")", ":", "y">> }

\* hashlib.md5(...).hexdigest()[:8], line 185: 32 bits of a digest, equal for
\* equal texts; of the model's texts only the two of CollidingTexts collide.
\* The digest is written as the text, or as "#" for the colliding pair.
Md5Prefix(normalized) ==
    IF normalized \in CollidingTexts THEN <<"#">> ELSE normalized

\* _calculate_hash, lines 181-185
CalculateHash(source) == Md5Prefix(Normalize(source))

\* Lines 128-129: the lines lineno..end_lineno of the file, joined by "\n".
FuncSource(node, content) ==
    LET first == node.lineno
        last == Min(node.end_lineno, Len(content))
        source_lines == IF first <= last THEN SubSeq(content, first, last) ELSE <<>>
    IN  Join([i \in 1..Len(source_lines) |-> source_lines[i]], "\n")

\* _analyze_function, lines 119-143
AnalyzeFunction(node, f, module_name) ==
    LET func_source == FuncSource(node, f.content)
    IN  [name |-> node.name,
         module |-> module_name,
         file |-> PathStr(f.dir \o <<f.name>>),
         line |-> node.lineno,
         complexity |-> CalculateComplexity(node),
         lines |-> CalculateLines(node),
         source |-> func_source,
         hash |-> CalculateHash(func_source)]

\* Lines 107-111: the records of the FunctionDef nodes of one file.
FileFunctions(f, module_name) ==
    LET IsFunctionDef(node) == node.kind = "FunctionDef"
        found == SelectSeq(f.defs, IsFunctionDef)
    IN  [i \in 1..Len(found) |-> AnalyzeFunction(found[i], f, module_name)]

\* _analyze_module, lines 94-117: the files beneath module_path in the order
\* rglob yields them (their order in file_order); a file open() or
\* ast.parse() fails on is passed over.
RECURSIVE AnalyzeFiles(_, _)
AnalyzeFiles(fs, module_name) ==
    IF fs = <<>> THEN <<>>
    ELSE FileFunctions(Head(fs), module_name) \o AnalyzeFiles(Tail(fs), module_name)

AnalyzeModule(module_path, module_name, file_order) ==
    LET IsRead(f) == IsPrefix(PathParts(module_path), f.dir) /\ FileParses(f)
    IN  AnalyzeFiles(SelectSeq(file_order, IsRead), module_name)

\* analyze(), lines 42-45: the records of every module of the list.
RECURSIVE AnalyzeModules(_, _)
AnalyzeModules(ms, file_order) ==
    IF ms = <<>> THEN <<>>
    ELSE AnalyzeModule(Head(ms).path, Head(ms).name, file_order)
         \o AnalyzeModules(Tail(ms), file_order)

\* A mutation of IsHighComplexity: a complexity of 10 is flagged.
IsHighComplexityFromTen(f) == f.complexity >= 10

\* "f['complexity'] > 10", line 49
IsHighComplexity(f) == f.complexity > 10

\* A mutation of IsLong: a length of 50 is flagged.
IsLongFromFifty(f) == f.lines >= 50

\* "f['lines'] > 50", line 54
IsLong(f) == f.lines > 50

\* A mutation of IsDuplicateGroup: the hash alone decides.
IsDuplicateGroupByHash(group) == Len(group) >= 2

\* _is_duplicate_group, lines 225-236
IsDuplicateGroup(group) ==
    /\ Len(group) >= 2
    /\ \A i \in 2..Len(group) :
          ~(group[i].lines # group[1].lines \/ group[i].complexity # group[1].complexity)

\* Lines 208-221: the entry of one group.
DuplicateEntry(group) ==
    [count |-> Len(group),
     functions |-> [i \in 1..Len(group) |->
                       [name |-> group[i].name, module |-> group[i].module,
                        file |-> group[i].file, line |-> group[i].line]],
     lines |-> group[1].lines,
     complexity |-> group[1].complexity]

\* _detect_duplicates, lines 187-223: hash_groups keeps the hashes in the
\* order of their first function, each group in the order of the list.
DetectDuplicates(functions) ==
    LET IsFirstOfHash(i) == \A j \in 1..(i - 1) : functions[j].hash # functions[i].hash
        firsts == SelectSeq([i \in 1..Len(functions) |-> i], IsFirstOfHash)
        Group(i) == LET SameHash(f) == f.hash = functions[i].hash
                    IN  SelectSeq(functions, SameHash)
        IsReported(i) == Len(Group(i)) >= 2 /\ IsDuplicateGroup(Group(i))
        reported == SelectSeq(firsts, IsReported)
    IN  [k \in 1..Len(reported) |-> DuplicateEntry(Group(reported[k]))]

RECURSIVE SumOf(_, _)
SumOf(functions, field) ==
    IF functions = <<>> THEN 0
    ELSE Head(functions)[field] + SumOf(Tail(functions), field)

\* round(total / count, 1), lines 62-63 and 87-88, in tenths: to the nearest
\* tenth, a tie to the even one; 0 without a function.
RoundAverage(total, count) ==
    IF count = 0 THEN 0
    ELSE LET q == (total * 10) \div count
             r == (total * 10) % count
         IN  IF 2 * r > count \/ (2 * r = count /\ q % 2 = 1) THEN q + 1 ELSE q

\* analyze(), lines 35-92, as main() calls it (lines 806-810).
ComplexityAnalyze ==
    /\ pc = "complexity"
    /\ UNCHANGED auxVars
    /\ \E file_order \in Perms(files) :
          all_functions' = AnalyzeModules(modules, file_order)
    /\ complexity_results' =
          [total_functions |-> Len(all_functions'),
           avg_complexity |-> RoundAverage(SumOf(all_functions', "complexity"),
                                           Len(all_functions')),
           avg_length |-> RoundAverage(SumOf(all_functions', "lines"),
                                       Len(all_functions')),
           high_complexity_functions |-> SelectSeq(all_functions', IsHighComplexity),
           long_functions |-> SelectSeq(all_functions', IsLong),
           duplicates |-> DetectDuplicates(all_functions')]
    /\ pc' = "output"
    /\ UNCHANGED tarjanVars
    /\ UNCHANGED <<modules, files, graph, cycles, threshold, god_modules, layers,
                   module_to_layer, violations>>
    /\ UNCHANGED <<config_file, data_file, report_file, exit_status>>

\* The lines of the model's functions.
DefLine(n) == <<"d", "e", "f", " ">> \o n \o <<"(", ")", ":">>
PassLine == <<" ", "p", "a", "s", "s">>
IfLine(n) == <<" ", "i", "f", " ">> \o n \o <<":">>
ReturnLine(words) == <<" ", "r", "e", "t", "u", "r", "n", " ">> \o words
Lines(n, line) == [i \in 1..n |-> line]

Def(name, lineno, end_lineno, walk) ==
    [kind |-> "FunctionDef", name |-> name, lineno |-> lineno,
     end_lineno |-> end_lineno, walk |-> walk]

\* The nodes ast.walk() yields for the model's functions.
PlainWalk == <<Node("FunctionDef"), Node("arguments"), Node("Pass")>>
OrWalk ==
    <<Node("FunctionDef"), Node("arguments"), Node("Return"), BoolOp(2),
      Node("Or"), Node("Name"), Node("Name")>>
NameWalk == <<Node("FunctionDef"), Node("arguments"), Node("Return"), Node("Name")>>
IfsWalk ==
    <<Node("FunctionDef"), Node("arguments"), Node("If"), Node("Name"),
      Node("If"), Node("Name"), Node("If"), Node("Name"), Node("Pass")>>
TenWalk ==
    <<Node("FunctionDef"), Node("arguments"), Node("If"), Node("If"), Node("For"),
      Node("While"), Node("Try"), Node("ExceptHandler"), BoolOp(3), Node("And"),
      Node("ListComp"), Node("Assert"), Node("IfExp"), Node("AsyncFor"),
      Node("With"), Node("Lambda")>>
ElevenWalk ==
    <<Node("FunctionDef"), Node("arguments"), Node("If"), Node("For"),
      Node("While"), Node("Try"), Node("ExceptHandler"), BoolOp(2), Node("Or"),
      Node("ListComp"), Node("DictComp"), Node("SetComp"), Node("GeneratorExp"),
      Node("Assert")>>

\* The contents of the files the complexity analyzer is given:
\*   1  def f(): pass, on two lines
\*   2  the same with an empty line between the two
\*   3  def f(): return a or b
\*   4  def f(): return aorb
\*   5  def g() with three nested ifs, and an async def
\*   6  def h(), 51 lines, complexity 10
\*   7  def k(), 50 lines, complexity 11, and def m(), 51 lines, complexity 11
\*   8  def c():x, def c():y, and the functions of 1 and of 2
\*   9  a file ast.parse() fails on, with the text of 1
ComplexityContents ==
    << [name |-> <<"p", ".", "p", "y">>, ok |-> TRUE, body |-> <<>>,
        content |-> <<DefLine(<<"f">>), PassLine>>,
        defs |-> <<Def(<<"f">>, 1, 2, PlainWalk)>>],
       [name |-> <<"q", ".", "p", "y">>, ok |-> TRUE, body |-> <<>>,
        content |-> <<DefLine(<<"f">>), <<>>, PassLine>>,
        defs |-> <<Def(<<"f">>, 1, 3, PlainWalk)>>],
       [name |-> <<"r", ".", "p", "y">>, ok |-> TRUE, body |-> <<>>,
        content |-> <<DefLine(<<"f">>), ReturnLine(<<"a", " ", "o", "r", " ", "b">>)>>,
        defs |-> <<Def(<<"f">>, 1, 2, OrWalk)>>],
       [name |-> <<"s", ".", "p", "y">>, ok |-> TRUE, body |-> <<>>,
        content |-> <<DefLine(<<"f">>), ReturnLine(<<"a", "o", "r", "b">>)>>,
        defs |-> <<Def(<<"f">>, 1, 2, NameWalk)>>],
       [name |-> <<"t", ".", "p", "y">>, ok |-> TRUE, body |-> <<>>,
        content |-> <<DefLine(<<"g">>), IfLine(<<"a">>), IfLine(<<"b">>),
                      IfLine(<<"c">>), PassLine,
                      <<"a", "s", "y", "n", "c", " ">> \o DefLine(<<"w">>), PassLine>>,
        defs |-> <<Def(<<"g">>, 1, 5, IfsWalk),
                   [Def(<<"w">>, 6, 7, PlainWalk) EXCEPT !.kind = "AsyncFunctionDef"]>>],
       [name |-> <<"u", ".", "p", "y">>, ok |-> TRUE, body |-> <<>>,
        content |-> <<DefLine(<<"h">>)>> \o Lines(50, PassLine),
        defs |-> <<Def(<<"h">>, 1, 51, TenWalk)>>],
       [name |-> <<"v", ".", "p", "y">>, ok |-> TRUE, body |-> <<>>,
        content |-> <<DefLine(<<"k">>)>> \o Lines(49, PassLine)
                    \o <<DefLine(<<"m">>)>> \o Lines(50, PassLine),
        defs |-> <<Def(<<"k">>, 1, 50, ElevenWalk), Def(<<"m">>, 51, 101, ElevenWalk)>>],
       [name |-> <<"x", ".", "p", "y">>, ok |-> TRUE, body |-> <<>>,
        content |-> << <<"d", "e", "f", " ", "c", "(", ")", ":", "x">>,
                       <<"d", "e", "f", " ", "c", "(", ")", ":", "y">>,
                       DefLine(<<"f">>), PassLine,
                       DefLine(<<"f">>), <<>>, PassLine >>,
        defs |-> <<Def(<<"c">>, 1, 1, NameWalk), Def(<<"c">>, 2, 2, NameWalk),
                   Def(<<"f">>, 3, 4, PlainWalk), Def(<<"f">>, 5, 7, PlainWalk)>>],
       [name |-> <<"z", ".", "p", "y">>, ok |-> FALSE, body |-> <<>>,
        content |-> <<DefLine(<<"f">>), PassLine>>,
        defs |-> <<Def(<<"f">>, 1, 2, PlainWalk)>>] >>

\* The modules the complexity analyzer is given: a at a, b at b.
ComplexityModules ==
    << [name |-> NamePool[1], path |-> NamePool[1]],
       [name |-> NamePool[2], path |-> NamePool[2]] >>

\* The k-th file: every content in the directory of either module.
ComplexityFile(k) ==
    LET c == ComplexityContents[((k - 1) % Len(ComplexityContents)) + 1]
    IN  [dir |-> <<ComplexityModules[((k - 1) \div Len(ComplexityContents)) + 1].name>>,
         name |-> c.name, ok |-> c.ok, body |-> c.body,
         content |-> c.content, defs |-> c.defs]

\* The ways to pick at most MaxFiles of them.
ComplexityPicks ==
    {c \in [1..MaxFiles -> 0..(Len(ComplexityModules) * Len(ComplexityContents))] :
        \A i \in 1..(MaxFiles - 1) : c[i + 1] = 0 \/ (c[i] # 0 /\ c[i] < c[i + 1])}

InitComplexity ==
    /\ pc = "complexity"
    /\ modules = ComplexityModules
    /\ \E c \in ComplexityPicks :
          files = {ComplexityFile(c[i]) : i \in {j \in DOMAIN c : c[j] # 0}}
    /\ graph = [n \in {NamePool[1], NamePool[2]} |-> {}]
    /\ index_counter = 0
    /\ stack = <<>>
    /\ lowlink = EmptyDict
    /\ index = EmptyDict
    /\ on_stack = {}
    /\ sccs = <<>>
    /\ frames = <<>>
    /\ cycles = <<>>
    /\ threshold = 30
    /\ god_modules = <<>>
    /\ layers = <<>>
    /\ module_to_layer = EmptyDict
    /\ violations = <<>>
    /\ config_file = "absent"
    /\ RunStarts

NextComplexity == ComplexityAnalyze

SpecComplexity == InitComplexity /\ [][NextComplexity]_vars

----------------------------------------------------------------------------
(* main() of analyze_existing_project.py, stage by stage.  Both optional
   imports of lines 37-50 succeeded.  config_file says what
   <project>/.vibekit.yaml holds:
     "absent"             there is no such file
     "empty"              a file without a document: yaml.safe_load gives None
     "null_architecture"  a mapping whose key architecture has no value
     "null_layers"        architecture is a mapping whose key layers has no value
     "mapping"            anything else that loads; layers holds
                          arch.get('layers', []), [] also when the key
                          architecture or the key layers is missing *)

\* Lines 795-798: without the file the validator is not built.
ArchSkipped ==
    /\ pc = "arch"
    /\ UNCHANGED auxVars
    /\ config_file = "absent"
    /\ pc' = "complexity"
    /\ UNCHANGED tarjanVars
    /\ UNCHANGED <<modules, files, graph, cycles, threshold, god_modules, layers,
                   module_to_layer, violations>>
    /\ UNCHANGED <<config_file, all_functions, complexity_results, data_file,
                   report_file, exit_status>>

\* A mutation of LoadRaises: a file without layers never makes the load fail.
LoadNeverRaises(config) == FALSE

\* _load_config, lines 40-49: self.config.get of None (line 43), arch.get of
\* None (line 44) and self.layers.sort of None (line 49) raise
\* AttributeError.
LoadRaises(config) == config \in {"empty", "null_architecture", "null_layers"}

\* Line 801 with a file _load_config fails on: nothing in main() catches the
\* exception, the interpreter prints the traceback and ends with status 1.
ConfigLoadFails ==
    /\ pc = "arch"
    /\ UNCHANGED auxVars
    /\ config_file # "absent"
    /\ LoadRaises(config_file)
    /\ pc' = "traceback"
    /\ exit_status' = 1
    /\ UNCHANGED tarjanVars
    /\ UNCHANGED <<modules, files, graph, cycles, threshold, god_modules, layers,
                   module_to_layer, violations>>
    /\ UNCHANGED <<config_file, all_functions, complexity_results, data_file,
                   report_file>>

\* Lines 812-826: the output directory and dependency_data.json.
WriteData ==
    /\ pc = "output"
    /\ UNCHANGED auxVars
    /\ data_file' = TRUE
    /\ pc' = "report"
    /\ UNCHANGED tarjanVars
    /\ UNCHANGED <<modules, files, graph, cycles, threshold, god_modules, layers,
                   module_to_layer, violations>>
    /\ UNCHANGED <<config_file, all_functions, complexity_results, report_file,
                   exit_status>>

\* Lines 828-842: the picture, which changes nothing of the analysis and
\* whose failures are caught (lines 336-341, 376-380), and analysis_report.md.
WriteReport ==
    /\ pc = "report"
    /\ UNCHANGED auxVars
    /\ report_file' = TRUE
    /\ pc' = "exit"
    /\ UNCHANGED tarjanVars
    /\ UNCHANGED <<modules, files, graph, cycles, threshold, god_modules, layers,
                   module_to_layer, violations>>
    /\ UNCHANGED <<config_file, all_functions, complexity_results, data_file,
                   exit_status>>

\* Lines 850-855
ExitStatus(found_cycles) == IF found_cycles # <<>> THEN 1 ELSE 0

Exit ==
    /\ pc = "exit"
    /\ UNCHANGED auxVars
    /\ exit_status' = ExitStatus(cycles)
    /\ pc' = "done"
    /\ UNCHANGED tarjanVars
    /\ UNCHANGED <<modules, files, graph, cycles, threshold, god_modules, layers,
                   module_to_layer, violations>>
    /\ UNCHANGED <<config_file, all_functions, complexity_results, data_file,
                   report_file>>

\* The contents of the files of the trees main() is run on:
\*   1  from b import x, and def f(): pass
\*   2  a file ast.parse() fails on, with the text of from a import x and of
\*      def f(): pass
\*   3  from a import x, and def f(): return a or b
MainContents ==
    << [name |-> <<"p", ".", "p", "y">>, ok |-> TRUE,
        body |-> <<ImportFrom(NamePool[2])>>,
        content |-> <<DefLine(<<"f">>), PassLine>>,
        defs |-> <<Def(<<"f">>, 1, 2, PlainWalk)>>],
       [name |-> <<"z", ".", "p", "y">>, ok |-> FALSE,
        body |-> <<ImportFrom(NamePool[1])>>,
        content |-> <<DefLine(<<"f">>), PassLine>>,
        defs |-> <<Def(<<"f">>, 1, 2, PlainWalk)>>],
       [name |-> <<"r", ".", "p", "y">>, ok |-> TRUE,
        body |-> <<ImportFrom(NamePool[1])>>,
        content |-> <<DefLine(<<"f">>), ReturnLine(<<"a", " ", "o", "r", " ", "b">>)>>,
        defs |-> <<Def(<<"f">>, 1, 2, OrWalk)>>] >>

\* The directories of these trees: a, b, src/a.
MainDirs == << <<NamePool[1]>>, <<NamePool[2]>>, <<SrcDir, NamePool[1]>> >>

MainFile(k) ==
    LET c == MainContents[((k - 1) % Len(MainContents)) + 1]
    IN  [dir |-> MainDirs[((k - 1) \div Len(MainContents)) + 1],
         name |-> c.name, ok |-> c.ok, body |-> c.body,
         content |-> c.content, defs |-> c.defs]

MainPicks ==
    {c \in [1..MaxFiles -> 0..(Len(MainDirs) * Len(MainContents))] :
        \A i \in 1..(MaxFiles - 1) : c[i + 1] = 0 \/ (c[i] # 0 /\ c[i] < c[i + 1])}

\* The layer lists of the configuration files of these runs: none, or a
\* layer for module a and a layer for module b, at the levels 1 and 3.
MainLayerConfigs ==
    {<<>>} \cup
    {<< [name |-> LayerNames[1], level |-> lv[1], patterns |-> << NamePool[1] >>],
        [name |-> LayerNames[4], level |-> lv[2], patterns |-> << NamePool[2] >>] >> :
        lv \in [1..2 -> {1, 3}]}

InitMain ==
    /\ pc = "scan"
    /\ modules = <<>>
    /\ \E c \in MainPicks :
          files = {MainFile(c[i]) : i \in {j \in DOMAIN c : c[j] # 0}}
    /\ graph = EmptyDict
    /\ index_counter = 0
    /\ stack = <<>>
    /\ lowlink = EmptyDict
    /\ index = EmptyDict
    /\ on_stack = {}
    /\ sccs = <<>>
    /\ frames = <<>>
    /\ cycles = <<>>
    /\ threshold = 30
    /\ god_modules = <<>>
    /\ config_file \in {"absent", "empty", "null_architecture", "null_layers", "mapping"}
    /\ layers \in IF config_file = "mapping" THEN MainLayerConfigs ELSE {<<>>}
    /\ module_to_layer = EmptyDict
    /\ violations = <<>>
    /\ RunStarts

NextMain ==
    \/ Scan
    \/ Analyze
    \/ TarjanRoot
    \/ TarjanNeighbor
    \/ TarjanReturn
    \/ CycleDetect
    \/ GodDetect
    \/ ArchSkipped
    \/ ConfigLoadFails
    \/ Validate
    \/ ComplexityAnalyze
    \/ WriteData
    \/ WriteReport
    \/ Exit

SpecMain == InitMain /\ [][NextMain]_vars

----------------------------------------------------------------------------
(* Two runs of main() on one source tree and one configuration file, each
   through the stages of lines 762-803: scan, graph, cycles, god modules,
   layer validation. *)

\* The contents of the files of these trees: import a, b; from src import
\* x; no import.
RerunContents ==
    << [ok |-> TRUE, body |-> <<Import(<<NamePool[1], NamePool[2]>>)>>],
       [ok |-> TRUE, body |-> <<ImportFrom(SrcDir)>>],
       [ok |-> TRUE, body |-> <<>>] >>

\* The directories of these trees: a, b, src.
RerunDirs == << <<NamePool[1]>>, <<NamePool[2]>>, <<SrcDir>> >>

RerunFile(k) ==
    LET c == RerunContents[((k - 1) % Len(RerunContents)) + 1]
    IN  [dir |-> RerunDirs[((k - 1) \div Len(RerunContents)) + 1],
         ok |-> c.ok, body |-> c.body]

RerunPicks ==
    {c \in [1..MaxFiles -> 0..(Len(RerunDirs) * Len(RerunContents))] :
        \A i \in 1..(MaxFiles - 1) : c[i + 1] = 0 \/ (c[i] # 0 /\ c[i] < c[i + 1])}

\* The layer lists of the configuration files of these runs: api for module
\* a, service for module b, repository for module src, each at level 1 or 2.
RerunLayerConfigs ==
    {<< [name |-> LayerNames[1], level |-> lv[1], patterns |-> << NamePool[1] >>],
        [name |-> LayerNames[2], level |-> lv[2], patterns |-> << NamePool[2] >>],
        [name |-> LayerNames[3], level |-> lv[3], patterns |-> << SrcDir >>] >> :
        lv \in [1..3 -> {1, 2}]}

\* yaml.safe_load of the unchanged file, lines 40-44: the list in the order
\* of the file, which for these files is the order api, service, repository.
ConfigFileLayers(loaded) ==
    CHOOSE ls \in RerunLayerConfigs : Range(ls) = Range(loaded)

\* main() is run a second time once the first run has left the layer
\* validation: a new process, with new detectors and a new validator, on
\* the same files.  What the first run computed is kept for comparison.
Rerun ==
    /\ pc = "complexity"
    /\ earlier_results = <<>>
    /\ earlier_results' = <<[of |-> "main", graph |-> graph, cycles |-> cycles,
                             god_modules |-> god_modules, violations |-> violations]>>
    /\ pc' = "scan"
    /\ modules' = <<>>
    /\ graph' = EmptyDict
    /\ index_counter' = 0
    /\ stack' = <<>>
    /\ lowlink' = EmptyDict
    /\ index' = EmptyDict
    /\ on_stack' = {}
    /\ sccs' = <<>>
    /\ frames' = <<>>
    /\ cycles' = <<>>
    /\ god_modules' = <<>>
    /\ layers' = ConfigFileLayers(layers)
    /\ module_to_layer' = EmptyDict
    /\ violations' = <<>>
    /\ UNCHANGED <<files, threshold, running>>
    /\ UNCHANGED outputVars

InitRerun ==
    /\ pc = "scan"
    /\ modules = <<>>
    /\ \E c \in RerunPicks :
          files = {RerunFile(c[i]) : i \in {j \in DOMAIN c : c[j] # 0}}
    /\ graph = EmptyDict
    /\ index_counter = 0
    /\ stack = <<>>
    /\ lowlink = EmptyDict
    /\ index = EmptyDict
    /\ on_stack = {}
    /\ sccs = <<>>
    /\ frames = <<>>
    /\ cycles = <<>>
    /\ threshold = 30
    /\ god_modules = <<>>
    /\ layers \in RerunLayerConfigs
    /\ module_to_layer = EmptyDict
    /\ violations = <<>>
    /\ config_file = "mapping"
    /\ RunStarts

NextRerun ==
    \/ Scan
    \/ Analyze
    \/ TarjanRoot
    \/ TarjanNeighbor
    \/ TarjanReturn
    \/ CycleDetect
    \/ GodDetect
    \/ Validate
    \/ Rerun

SpecRerun == InitRerun /\ [][NextRerun]_vars

----------------------------------------------------------------------------
(* The four stages that follow the graph build (main(), lines 777-810), run
   by a scheduler in an order of its choosing: it gives the processor to a
   stage that has not returned, and may take it from a stage between two of
   its steps, any number of times.  running is the stage that has the
   processor; earlier_results lists what the scheduler noted: [of, event],
   event being "returned", or "suspended" for the first stage it took the
   processor from after that stage had begun. *)

Stages == {"cycle", "god", "arch", "complexity"}

\* The stages that have returned, in the order of their return.
ReturnOrder ==
    LET IsReturn(e) == e.event = "returned"
        returns == SelectSeq(earlier_results, IsReturn)
    IN  [i \in 1..Len(returns) |-> returns[i].of]

\* The last step of a stage moves pc to the stage main() runs next, so the
\* stage that has the processor has returned when pc has left it.
RunningReturned == running # "none" /\ pc # running

\* The running stage has begun: of the four only the cycle detection takes
\* more than one step.
RunningBegun == running = "cycle" /\ pc = "cycle" /\ index # EmptyDict

\* The scheduler: it notes that the running stage has returned, or suspends
\* it, and gives the processor to a stage that has not returned; when the
\* four have returned main() goes on with its output (line 812).
Dispatch ==
    /\ pc \in Stages \cup {"output"}
    /\ running = "none" => (pc = "cycle" /\ earlier_results = <<>>)
    /\ LET noted == IF RunningReturned
                    THEN Append(earlier_results, [of |-> running, event |-> "returned"])
                    ELSE IF RunningBegun /\ \A i \in DOMAIN earlier_results :
                                              earlier_results[i].event # "suspended"
                         THEN Append(earlier_results, [of |-> running, event |-> "suspended"])
                         ELSE earlier_results
           left == Stages \ ({noted[i].of : i \in {j \in DOMAIN noted :
                                                     noted[j].event = "returned"}}
                             \cup (IF RunningReturned THEN {} ELSE {running}))
       IN  /\ earlier_results' = noted
           /\ IF left = {}
              THEN /\ RunningReturned
                   /\ pc' = "output"
                   /\ running' = "none"
              ELSE \E s \in left : pc' = s /\ running' = s
    /\ UNCHANGED tarjanVars
    /\ UNCHANGED <<modules, files, graph, cycles, threshold, god_modules, layers,
                   module_to_layer, violations>>
    /\ UNCHANGED <<config_file, all_functions, complexity_results, data_file,
                   report_file, exit_status>>

\* A step of the stage that has the processor.
Dispatched(step) == pc = running /\ step

\* The directories of the trees of these runs: a, b.
AnyOrderDirs == << <<NamePool[1]>>, <<NamePool[2]>> >>

\* The contents of their files: from b import x with def f(): pass, and
\* from a import x with def f(): return a or b.
AnyOrderContents == <<MainContents[1], MainContents[3]>>

AnyOrderFile(k) ==
    LET c == AnyOrderContents[((k - 1) % Len(AnyOrderContents)) + 1]
    IN  [dir |-> AnyOrderDirs[((k - 1) \div Len(AnyOrderContents)) + 1],
         name |-> c.name, ok |-> c.ok, body |-> c.body,
         content |-> c.content, defs |-> c.defs]

AnyOrderPicks ==
    {c \in [1..MaxFiles -> 0..(Len(AnyOrderDirs) * Len(AnyOrderContents))] :
        \A i \in 1..(MaxFiles - 1) : c[i + 1] = 0 \/ (c[i] # 0 /\ c[i] < c[i + 1])}

\* The layer lists of their configuration files: api for module a and
\* database for module b, one at level 1 and the other at level 3.
AnyOrderLayerConfigs == {ls \in MainLayerConfigs : ls # <<>> /\ ls[1].level # ls[2].level}

InitAnyOrder ==
    /\ pc = "scan"
    /\ modules = <<>>
    /\ \E c \in AnyOrderPicks :
          files = {AnyOrderFile(c[i]) : i \in {j \in DOMAIN c : c[j] # 0}}
    /\ graph = EmptyDict
    /\ index_counter = 0
    /\ stack = <<>>
    /\ lowlink = EmptyDict
    /\ index = EmptyDict
    /\ on_stack = {}
    /\ sccs = <<>>
    /\ frames = <<>>
    /\ cycles = <<>>
    /\ threshold = 30
    /\ god_modules = <<>>
    /\ config_file \in {"absent", "mapping"}
    /\ layers \in IF config_file = "mapping" THEN AnyOrderLayerConfigs ELSE {<<>>}
    /\ module_to_layer = EmptyDict
    /\ violations = <<>>
    /\ RunStarts

NextAnyOrder ==
    \/ Scan
    \/ Analyze
    \/ Dispatch
    \/ Dispatched(TarjanRoot)
    \/ Dispatched(TarjanNeighbor)
    \/ Dispatched(TarjanReturn)
    \/ Dispatched(CycleDetect)
    \/ Dispatched(GodDetect)
    \/ Dispatched(ArchSkipped)
    \/ Dispatched(Validate)
    \/ Dispatched(ComplexityAnalyze)

SpecAnyOrder == InitAnyOrder /\ [][NextAnyOrder]_vars

----------------------------------------------------------------------------
(* detect() called twice on one CycleDetector and on one GodModuleDetector,
   the graph unchanged; earlier_results keeps the list each first call
   returned. *)

\* The first calls noted so far.
CalledTwice == {earlier_results[i].of : i \in DOMAIN earlier_results}

\* CycleDetector.detect(), lines 194-217, called again once it has returned:
\* _tarjan_scc starts with new locals (lines 221-226), self.cycles is the
\* list of the first call.
CycleDetectAgain ==
    /\ pc = "god"
    /\ "CycleDetector" \notin CalledTwice
    /\ earlier_results' = Append(earlier_results,
                                 [of |-> "CycleDetector", returned |-> cycles])
    /\ pc' = "cycle"
    /\ index_counter' = 0
    /\ stack' = <<>>
    /\ lowlink' = EmptyDict
    /\ index' = EmptyDict
    /\ on_stack' = {}
    /\ sccs' = <<>>
    /\ frames' = <<>>
    /\ UNCHANGED <<modules, files, graph, cycles, threshold, god_modules, layers,
                   module_to_layer, violations, running>>
    /\ UNCHANGED outputVars

\* GodModuleDetector.detect(), lines 288-323, called again once it has
\* returned: self.god_modules is the list of the first call.
GodDetectAgain ==
    /\ pc = "arch"
    /\ "GodModuleDetector" \notin CalledTwice
    /\ earlier_results' = Append(earlier_results,
                                 [of |-> "GodModuleDetector", returned |-> god_modules])
    /\ pc' = "god"
    /\ UNCHANGED tarjanVars
    /\ UNCHANGED <<modules, files, graph, cycles, threshold, god_modules, layers,
                   module_to_layer, violations, running>>
    /\ UNCHANGED outputVars

\* The graphs of these calls are those over the modules a and b.
InitRedetect ==
    /\ pc = "cycle"
    /\ modules = <<>>
    /\ files = {}
    /\ graph \in Graphs(FirstNames(2))
    /\ index_counter = 0
    /\ stack = <<>>
    /\ lowlink = EmptyDict
    /\ index = EmptyDict
    /\ on_stack = {}
    /\ sccs = <<>>
    /\ frames = <<>>
    /\ cycles = <<>>
    /\ threshold \in Thresholds
    /\ god_modules = <<>>
    /\ layers = <<>>
    /\ module_to_layer = EmptyDict
    /\ violations = <<>>
    /\ config_file = "absent"
    /\ RunStarts

NextRedetect ==
    \/ TarjanRoot
    \/ TarjanNeighbor
    \/ TarjanReturn
    \/ CycleDetect
    \/ CycleDetectAgain
    \/ GodDetect
    \/ GodDetectAgain

SpecRedetect == InitRedetect /\ [][NextRedetect]_vars

----------------------------------------------------------------------------
(* main() on trees whose module directories can lie inside one another:
   src holding files of its own next to src/a. *)

\* The project has no .vibekit.yaml.  The files lie in the directories a, b,
\* src and src/a of TreeDirs and hold the first or the third of MainContents.
InitLayout ==
    /\ pc = "scan"
    /\ modules = <<>>
    /\ LET contents == <<MainContents[1], MainContents[3]>>
           LayoutFile(k) ==
               LET c == contents[((k - 1) % Len(contents)) + 1]
               IN  [dir |-> TreeDirs[((k - 1) \div Len(contents)) + 1],
                    name |-> c.name, ok |-> c.ok, body |-> c.body,
                    content |-> c.content, defs |-> c.defs]
           picks == {c \in [1..MaxFiles -> 0..(Len(TreeDirs) * Len(contents))] :
                        \A i \in 1..(MaxFiles - 1) :
                           c[i + 1] = 0 \/ (c[i] # 0 /\ c[i] < c[i + 1])}
       IN  \E c \in picks :
              files = {LayoutFile(c[i]) : i \in {j \in DOMAIN c : c[j] # 0}}
    /\ graph = EmptyDict
    /\ index_counter = 0
    /\ stack = <<>>
    /\ lowlink = EmptyDict
    /\ index = EmptyDict
    /\ on_stack = {}
    /\ sccs = <<>>
    /\ frames = <<>>
    /\ cycles = <<>>
    /\ threshold = 30
    /\ god_modules = <<>>
    /\ config_file = "absent"
    /\ layers = <<>>
    /\ module_to_layer = EmptyDict
    /\ violations = <<>>
    /\ RunStarts

NextLayout ==
    \/ Scan
    \/ Analyze
    \/ TarjanRoot
    \/ TarjanNeighbor
    \/ TarjanReturn
    \/ CycleDetect
    \/ GodDetect
    \/ ArchSkipped
    \/ ComplexityAnalyze

SpecLayout == InitLayout /\ [][NextLayout]_vars

----------------------------------------------------------------------------
(* Reference definitions the claims are stated with. *)

\* The nodes reachable from the nodes of S by one or more edges of g.
RECURSIVE ReachClosure(_, _)
ReachClosure(g, S) ==
    LET more == S \cup UNION {Get(g, n, {}) : n \in S}
    IN  IF more = S THEN S ELSE ReachClosure(g, more)

Reaches(g, a, b) == b \in ReachClosure(g, Get(g, a, {}))

\* The strongly connected component of a.
SccOf(g, a) ==
    LET reached == ReachClosure(g, Get(g, a, {}))
    IN  IF a \in reached
        THEN {a} \cup {b \in DOMAIN g \cap reached : Reaches(g, b, a)}
        ELSE {a}

\* The module sets of the reported cycle groups.
ReportedGroups == {Range(cycles[i].modules) : i \in DOMAIN cycles}

CycleDetectReturned == pc = "god"

----------------------------------------------------------------------------
(* Claims *)

\* C1: detect() reports exactly one cycle group per strongly connected
\* component of more than one module and nothing else: two distinct modules
\* are in the same reported group iff each is reachable from the other, no
\* group has a single member, no component is reported twice; for the edges
\* a->b and b->a and no other, the one group {a, b} is returned.
C1_CycleGroupsAreTheLargeSccs ==
    CycleDetectReturned =>
        /\ ReportedGroups =
             {SccOf(graph, n) : n \in {m \in DOMAIN graph :
                                         Cardinality(SccOf(graph, m)) > 1}}
        /\ Len(cycles) = Cardinality(ReportedGroups)
        /\ \A a, b \in DOMAIN graph :
             a # b =>
               ((\E i \in DOMAIN cycles : {a, b} \subseteq Range(cycles[i].modules))
                  <=> (Reaches(graph, a, b) /\ Reaches(graph, b, a)))
        /\ \A i \in DOMAIN cycles :
             /\ Len(cycles[i].modules) > 1
             /\ cycles[i].size = Len(cycles[i].modules)
        /\ (/\ graph[NamePool[1]] = {NamePool[2]}
            /\ graph[NamePool[2]] = {NamePool[1]}
            /\ \A n \in DOMAIN graph \ {NamePool[1], NamePool[2]} : graph[n] = {})
           => /\ Len(cycles) = 1
              /\ cycles[1].modules = <<NamePool[1], NamePool[2]>>

\* C1 witness: the graph a->b, b->a with no other edge was analysed and one
\* group was reported.
C1_Witness ==
    /\ CycleDetectReturned
    /\ graph[NamePool[1]] = {NamePool[2]}
    /\ graph[NamePool[2]] = {NamePool[1]}
    /\ \A n \in DOMAIN graph \ {NamePool[1], NamePool[2]} : graph[n] = {}
    /\ Len(cycles) = 1

\* C2: the components _tarjan_scc returns partition the node set: every
\* module is in exactly one component.
C2_SccsPartitionNodes ==
    CycleDetectReturned =>
        /\ UNION Range(sccs) = DOMAIN graph
        /\ \A i, j \in DOMAIN sccs : i # j => sccs[i] \cap sccs[j] = {}
        /\ \A i \in DOMAIN sccs : sccs[i] # {}

\* C2 witness: a run that returned a component of two modules and another
\* component, over a graph where an edge leads into a complete component.
C2_Witness ==
    /\ CycleDetectReturned
    /\ Len(sccs) >= 2
    /\ \E i \in DOMAIN sccs : Cardinality(sccs[i]) = 2
    /\ \E i, j \in DOMAIN sccs : i < j /\ \E n \in sccs[j] : graph[n] \cap sccs[i] # {}


\* The dotted names an import statement mentions.
StmtNames(stmt) ==
    IF stmt.form = "ImportFrom"
    THEN (IF stmt.module = <<>> THEN {} ELSE {stmt.module})
    ELSE Range(stmt.names)

\* The dotted name begins with the identifier T.
BeginsWith(dotted, T) == dotted = T \/ StartsWith(dotted, T \o <<".">>)

\* The dotted names the parsable files beneath the path import.
ImportedBeneath(path) ==
    UNION {UNION {StmtNames(f.body[i]) : i \in DOMAIN f.body} :
             f \in {g \in files : g.ok /\ IsPrefix(PathParts(path), g.dir)}}

ModuleNames == {modules[i].name : i \in DOMAIN modules}

AnalyzeReturned == pc = "cycle"

\* C3: no module is in its own dependency set in the graph analyze() returns,
\* even when a file of the module imports the module itself.
C3_NoSelfLoop ==
    AnalyzeReturned => \A n \in DOMAIN graph : n \notin graph[n]

\* C3 witness: a parsable file beneath a module's path imports that module,
\* and the graph was built.
C3_Witness ==
    /\ AnalyzeReturned
    /\ \E i \in DOMAIN modules :
         \E d \in ImportedBeneath(modules[i].path) : BeginsWith(d, modules[i].name)

\* C4: every dependency in the returned graph is the name of a scanned module;
\* an import of a name that begins with no known module adds no edge.
C4_EdgesPointToModules ==
    AnalyzeReturned =>
        /\ DOMAIN graph = ModuleNames
        /\ \A n \in DOMAIN graph : graph[n] \subseteq ModuleNames

\* C4 witness: a parsable file beneath a module's path imports a name whose
\* leading identifier is no module, and the graph was built.
C4_Witness ==
    /\ AnalyzeReturned
    /\ \E i \in DOMAIN modules :
         \E d \in ImportedBeneath(modules[i].path) :
            \A T \in ModuleNames : ~BeginsWith(d, T)

\* C5: for every scanned module M, every import in a parsable file beneath
\* M's path of a dotted name that begins with a known module T # M yields the
\* edge M -> T.
C5_EveryImportYieldsItsEdge ==
    AnalyzeReturned =>
        \A i \in DOMAIN modules :
           \A d \in ImportedBeneath(modules[i].path) :
              \A T \in ModuleNames \ {modules[i].name} :
                 BeginsWith(d, T) => T \in graph[modules[i].name]

\* What analyze() does guarantee: the imports beneath the path of an entry
\* that self.modules keeps (the last entry of its name) yield their edges.
ImportsOfKeptModulesYieldEdges ==
    AnalyzeReturned =>
        \A n \in DOMAIN SelfModules :
           \A d \in ImportedBeneath(SelfModules[n].path) :
              \A T \in ModuleNames \ {n} :
                 BeginsWith(d, T) => T \in graph[n]


GodDetectReturned == pc = "arch"

\* The modules the god-module list names.
GodNames == {god_modules[i].name : i \in DOMAIN god_modules}

\* The number of distinct modules that hold an edge to m.
FanIn(m) == Cardinality({n \in DOMAIN graph : m \in graph[n]})

\* floor(0.30 * N)
Floor30(N) == (30 * N) \div 100

\* C6: detect(t) flags a module iff its in-degree is strictly greater than
\* t * N, each flagged module once; with t = 0.30 a module of fan-in
\* floor(0.30 * N) is not flagged and one of fan-in floor(0.30 * N) + 1 is.
C6_FlaggedIffOverThreshold ==
    GodDetectReturned =>
        LET N == Cardinality(DOMAIN graph)
        IN  /\ \A m \in DOMAIN graph :
                 m \in GodNames <=> FanIn(m) * 100 > threshold * N
            /\ Len(god_modules) = Cardinality(GodNames)
            /\ threshold = 30 =>
                 \A m \in DOMAIN graph :
                    /\ FanIn(m) = Floor30(N) => m \notin GodNames
                    /\ FanIn(m) = Floor30(N) + 1 => m \in GodNames

\* C6 witness: with t = 0.30 and four modules (floor(0.30 * 4) = 1), a
\* module of fan-in 1 and a module of fan-in 2 went through detect().
C6_Witness ==
    /\ GodDetectReturned
    /\ threshold = 30
    /\ Cardinality(DOMAIN graph) = 4
    /\ \E m1, m2 \in DOMAIN graph :
         /\ FanIn(m1) = 1 /\ m1 \notin GodNames
         /\ FanIn(m2) = 2 /\ m2 \in GodNames

\* C7: in every god-module report the fan-in count is the number of distinct
\* modules that hold an edge to the reported module, and the dependents list
\* is exactly those modules, each once, in sorted order.
C7_DependentsAreTheFanIn ==
    GodDetectReturned =>
        \A i \in DOMAIN god_modules :
           LET r == god_modules[i]
           IN  /\ r.dependents_count = FanIn(r.name)
               /\ Range(r.dependents) = {n \in DOMAIN graph : r.name \in graph[n]}
               /\ Len(r.dependents) = r.dependents_count
               /\ \A j, k \in DOMAIN r.dependents :
                    j < k => StrLess(r.dependents[j], r.dependents[k])

\* C7 witness: a report with three dependents, among them "ab" and "b",
\* whose sorted order differs from the order of the pool.
C7_Witness ==
    /\ GodDetectReturned
    /\ \E i \in DOMAIN god_modules :
         /\ Len(god_modules[i].dependents) = 3
         /\ {NamePool[2], NamePool[3]} \subseteq Range(god_modules[i].dependents)


ValidateReturned == pc = "complexity"

\* The place of a layer in the configuration file.
ConfigPosition(layer_name) == CHOOSE i \in DOMAIN LayerNames : LayerNames[i] = layer_name

\* The configured layers with a rule that matches the module.
MatchingLayers(m) ==
    {k \in DOMAIN layers : LayerMatches(layers[k], m.name, m.path)}

\* Among the layers ks, the one first in descending level order: the highest
\* level, and of several layers of that level the first of the file.
FirstByLevel(ks) ==
    CHOOSE k \in ks :
       \A j \in ks \ {k} :
          \/ layers[j].level < layers[k].level
          \/ /\ layers[j].level = layers[k].level
             /\ ConfigPosition(layers[k].name) < ConfigPosition(layers[j].name)

\* C8: a module is assigned to the first layer, in descending level order,
\* with a rule matching its name or path, hence to a matching layer of the
\* highest level; a module no layer matches stays unclassified.
C8_FirstMatchingLayerByLevelWins ==
    ValidateReturned =>
        \A i \in DOMAIN modules :
           LET m == modules[i]
           IN  IF MatchingLayers(m) = {}
               THEN m.name \notin DOMAIN module_to_layer
               ELSE /\ m.name \in DOMAIN module_to_layer
                    /\ module_to_layer[m.name].name =
                          layers[FirstByLevel(MatchingLayers(m))].name
                    /\ module_to_layer[m.name].level =
                          layers[FirstByLevel(MatchingLayers(m))].level
                    /\ \A k \in MatchingLayers(m) :
                          layers[k].level <= module_to_layer[m.name].level

\* C8 witness: module a matches the layers api and service, service comes
\* later in the file and has the higher level, a is classified as service;
\* and module b matches no layer.
C8_Witness ==
    /\ ValidateReturned
    /\ NamePool[1] \in DOMAIN module_to_layer
    /\ module_to_layer[NamePool[1]].name = "service"
    /\ \E k \in DOMAIN layers :
         /\ layers[k].name = "api"
         /\ layers[k].level < module_to_layer[NamePool[1]].level
         /\ LayerMatches(layers[k], NamePool[1], NamePool[1])
    /\ NamePool[2] \notin DOMAIN module_to_layer

\* The skip_layer violations recorded for the edge module -> dep.
SkipViolationsOf(module, dep) ==
    {i \in DOMAIN violations :
        /\ violations[i].type = "skip_layer"
        /\ violations[i].from_module = module
        /\ violations[i].to_module = dep}

\* C9: for every edge whose two ends are classified, validate() records a
\* skip_layer violation iff level(from) - level(to) > 1, and exactly once.
C9_SkipLayerIffLevelGapOverOne ==
    ValidateReturned =>
        \A module \in DOMAIN graph :
           \A dep \in graph[module] :
              (module \in DOMAIN module_to_layer /\ dep \in DOMAIN module_to_layer) =>
                 Cardinality(SkipViolationsOf(module, dep)) =
                    IF module_to_layer[module].level - module_to_layer[dep].level > 1
                    THEN 1 ELSE 0

\* C9 witness: an edge over a gap of two levels was recorded and an edge to
\* the next lower level was not.
C9_Witness ==
    /\ ValidateReturned
    /\ \E m1, m2 \in DOMAIN graph :
         \E d1 \in graph[m1] \cap DOMAIN module_to_layer :
            \E d2 \in graph[m2] \cap DOMAIN module_to_layer :
               /\ m1 \in DOMAIN module_to_layer
               /\ m2 \in DOMAIN module_to_layer
               /\ module_to_layer[m1].level - module_to_layer[d1].level = 2
               /\ SkipViolationsOf(m1, d1) # {}
               /\ module_to_layer[m2].level - module_to_layer[d2].level = 1
               /\ SkipViolationsOf(m2, d2) = {}

LevelOfLayer(layer_name) ==
    layers[CHOOSE k \in DOMAIN layers : layers[k].name = layer_name].level

\* The configuration api(4) > service(3) > repository(2) > database(1).
FourLayerExample ==
    /\ Len(layers) = 4
    /\ \A k \in DOMAIN layers :
         layers[k].level = 5 - ConfigPosition(layers[k].name)

\* C10: the skipped-layers list of a skip_layer violation holds every
\* configured layer whose level is strictly between level(to) and
\* level(from), no other layer, each once, from the highest level down; with
\* api(4) > service(3) > repository(2) > database(1) an edge from the api
\* layer to the database layer lists [service, repository].
C10_SkippedLayersAreThoseBetween ==
    ValidateReturned =>
        \A i \in DOMAIN violations :
           violations[i].type = "skip_layer" =>
              LET v == violations[i]
              IN  /\ Range(v.skipped_layers) =
                        {layers[k].name : k \in {j \in DOMAIN layers :
                            v.to_level < layers[j].level /\ layers[j].level < v.from_level}}
                  /\ Len(v.skipped_layers) = Cardinality(Range(v.skipped_layers))
                  /\ \A j, k \in DOMAIN v.skipped_layers :
                        j < k => LevelOfLayer(v.skipped_layers[j])
                                    >= LevelOfLayer(v.skipped_layers[k])
                  /\ (FourLayerExample /\ v.from_layer = "api" /\ v.to_layer = "database")
                        => v.skipped_layers = <<"service", "repository">>

\* C10 witness: under the four-layer example the edge a -> b, from the api
\* layer to the database layer, was recorded with [service, repository].
C10_Witness ==
    /\ ValidateReturned
    /\ FourLayerExample
    /\ \E i \in DOMAIN violations :
         /\ violations[i].type = "skip_layer"
         /\ violations[i].from_layer = "api"
         /\ violations[i].to_layer = "database"
         /\ violations[i].from_level = 4
         /\ violations[i].to_level = 1
         /\ violations[i].skipped_layers = <<"service", "repository">>

\* The reverse_dependency violations recorded for the edge module -> dep.
ReverseViolationsOf(module, dep) ==
    {i \in DOMAIN violations :
        /\ violations[i].type = "reverse_dependency"
        /\ violations[i].from_module = module
        /\ violations[i].to_module = dep}

\* C11: for every edge whose two ends are classified, validate() records a
\* reverse_dependency violation iff level(to) > level(from), once; an edge
\* between two modules of one level is not a reverse dependency.
C11_ReverseIffTargetLevelHigher ==
    ValidateReturned =>
        \A module \in DOMAIN graph :
           \A dep \in graph[module] :
              (module \in DOMAIN module_to_layer /\ dep \in DOMAIN module_to_layer) =>
                 /\ Cardinality(ReverseViolationsOf(module, dep)) =
                       IF module_to_layer[dep].level > module_to_layer[module].level
                       THEN 1 ELSE 0
                 /\ module_to_layer[dep].level = module_to_layer[module].level
                       => ReverseViolationsOf(module, dep) = {}

\* C11 witness: an edge to a higher level was recorded as a reverse
\* dependency and an edge within one level was not.
C11_Witness ==
    /\ ValidateReturned
    /\ \E m1, m2 \in DOMAIN graph \cap DOMAIN module_to_layer :
         \E d1 \in graph[m1] \cap DOMAIN module_to_layer :
            \E d2 \in graph[m2] \cap DOMAIN module_to_layer :
               /\ module_to_layer[d1].level > module_to_layer[m1].level
               /\ ReverseViolationsOf(m1, d1) # {}
               /\ module_to_layer[d2].level = module_to_layer[m2].level
               /\ ReverseViolationsOf(m2, d2) = {}

\* The violations of either kind recorded for the edge module -> dep.
ViolationsOf(module, dep) ==
    {i \in DOMAIN violations :
        /\ violations[i].from_module = module
        /\ violations[i].to_module = dep}

\* C12: in the list validate() returns each edge has at most one violation,
\* none is both a skip_layer and a reverse_dependency, and an edge whose
\* source is at the level of its target or one level above has none.
C12_AtMostOneViolationPerEdge ==
    ValidateReturned =>
        \A module \in DOMAIN graph :
           \A dep \in graph[module] :
              /\ Cardinality(ViolationsOf(module, dep)) <= 1
              /\ ~(SkipViolationsOf(module, dep) # {} /\ ReverseViolationsOf(module, dep) # {})
              /\ (/\ module \in DOMAIN module_to_layer
                  /\ dep \in DOMAIN module_to_layer
                  /\ module_to_layer[module].level - module_to_layer[dep].level \in {0, 1})
                    => ViolationsOf(module, dep) = {}

\* C12 witness: the returned list holds a skip_layer and a
\* reverse_dependency violation, of different edges, next to an edge over
\* one level and an edge within a level that have none.
C12_Witness ==
    /\ ValidateReturned
    /\ \E i, j \in DOMAIN violations :
         /\ violations[i].type = "skip_layer"
         /\ violations[j].type = "reverse_dependency"
    /\ \E m1 \in DOMAIN graph \cap DOMAIN module_to_layer :
         \E d1 \in graph[m1] \cap DOMAIN module_to_layer :
            /\ module_to_layer[m1].level - module_to_layer[d1].level \in {0, 1}
            /\ ViolationsOf(m1, d1) = {}

\* The modules of the scan with the name n that some layer matches.
MatchedModules(n) ==
    {i \in DOMAIN modules : modules[i].name = n /\ MatchingLayers(modules[i]) # {}}

\* C13: no violation names a module that matched no layer as its source or
\* its target: an edge with an unclassified end produces no violation.
C13_UnclassifiedModulesAreExcluded ==
    ValidateReturned =>
        /\ \A i \in DOMAIN violations :
              /\ MatchedModules(violations[i].from_module) # {}
              /\ MatchedModules(violations[i].to_module) # {}
        /\ \A module \in DOMAIN graph :
              \A dep \in graph[module] :
                 (MatchedModules(module) = {} \/ MatchedModules(dep) = {})
                    => ViolationsOf(module, dep) = {}

\* C13 witness: violations were recorded while a module that matched no
\* layer has an edge to, and an edge from, a classified module.
C13_Witness ==
    /\ ValidateReturned
    /\ violations # <<>>
    /\ \E u \in DOMAIN graph :
         /\ MatchedModules(u) = {}
         /\ \E d \in graph[u] : MatchedModules(d) # {}
         /\ \E m \in DOMAIN graph : u \in graph[m] /\ MatchedModules(m) # {}

\* C14: the skipped_layers list of every recorded skip_layer violation is
\* non-empty, for every layer configuration.
C14_SkipViolationsSkipSomeLayer ==
    ValidateReturned =>
        \A i \in DOMAIN violations :
           violations[i].type = "skip_layer" => violations[i].skipped_layers # <<>>

\* Every level between the lowest and the highest configured level is the
\* level of some layer.
LevelsHaveNoGap ==
    \A j, k \in DOMAIN layers :
       \A lv \in layers[j].level..layers[k].level :
          \E i \in DOMAIN layers : layers[i].level = lv

\* With layer levels without a gap every skip_layer violation lists a layer.
SkipViolationsSkipSomeLayerWithoutGaps ==
    (ValidateReturned /\ LevelsHaveNoGap) =>
        \A i \in DOMAIN violations :
           violations[i].type = "skip_layer" => violations[i].skipped_layers # <<>>


ComplexityReturned == pc = "output"

\* The definition in the tree a function record was made from.
DefOf(r) ==
    CHOOSE node \in UNION {Range(f.defs) : f \in {g \in files : PathStr(g.dir \o <<g.name>>) = r.file}} :
       node.lineno = r.line /\ node.name = r.name

\* The number of nodes of the walk with a kind of kinds.
CountKinds(node, kinds) ==
    Cardinality({j \in DOMAIN node.walk : node.walk[j].kind \in kinds})

\* The sum, over the boolean expressions among the first n nodes of the
\* walk, of the operand count less one.
RECURSIVE ExtraOperands(_, _)
ExtraOperands(node, n) ==
    IF n = 0 THEN 0
    ELSE ExtraOperands(node, n - 1)
         + (IF node.walk[n].kind = "BoolOp" THEN node.walk[n].values - 1 ELSE 0)

\* The function holds three conditional branches and no other construct that
\* counts.
ThreeBranchesOnly(node) ==
    /\ CountKinds(node, {"If"}) = 3
    /\ CountKinds(node, {"For", "While", "ExceptHandler", "BoolOp", "ListComp",
                         "DictComp", "SetComp", "GeneratorExp", "Assert"}) = 0

\* C18: the complexity of every function record is 1 + the if statements +
\* the for and while loops + the exception handlers + the sum over the
\* boolean expressions of (operands - 1) + the comprehensions and generator
\* expressions + the assertions of the function; three conditional branches
\* and nothing else give 4.
C18_ComplexityIsOnePlusDecisionPoints ==
    ComplexityReturned =>
        \A i \in DOMAIN all_functions :
           LET node == DefOf(all_functions[i])
           IN  /\ all_functions[i].complexity =
                     1 + CountKinds(node, {"If"})
                       + CountKinds(node, {"For", "While"})
                       + CountKinds(node, {"ExceptHandler"})
                       + ExtraOperands(node, Len(node.walk))
                       + CountKinds(node, {"ListComp", "DictComp", "SetComp", "GeneratorExp"})
                       + CountKinds(node, {"Assert"})
               /\ ThreeBranchesOnly(node) => all_functions[i].complexity = 4

\* C18 witness: a function of three ifs got complexity 4, and a function with
\* a boolean expression of three operands, loops, a handler, a comprehension
\* and an assertion got complexity 10.
C18_Witness ==
    /\ ComplexityReturned
    /\ \E i, j \in DOMAIN all_functions :
         /\ ThreeBranchesOnly(DefOf(all_functions[i]))
         /\ all_functions[i].complexity = 4
         /\ \E n \in DOMAIN DefOf(all_functions[j]).walk :
               DefOf(all_functions[j]).walk[n] = BoolOp(3)
         /\ all_functions[j].complexity = 10

\* C19: analyze() lists a function as high-complexity iff its complexity is
\* over 10 and as long iff its length, last line - first line + 1, is over
\* 50; a function at exactly 10 or exactly 50 is not flagged, and either flag
\* is decided without the other.
C19_FlagsAreStrictThresholds ==
    ComplexityReturned =>
        /\ Range(complexity_results.high_complexity_functions) \subseteq Range(all_functions)
        /\ Range(complexity_results.long_functions) \subseteq Range(all_functions)
        /\ \A i \in DOMAIN all_functions :
              LET r == all_functions[i]
                  length == DefOf(r).end_lineno - DefOf(r).lineno + 1
              IN  /\ r.lines = length
                  /\ (r \in Range(complexity_results.high_complexity_functions))
                        <=> (r.complexity > 10)
                  /\ (r \in Range(complexity_results.long_functions))
                        <=> (length > 50)
                  /\ r.complexity = 10 =>
                        r \notin Range(complexity_results.high_complexity_functions)
                  /\ length = 50 => r \notin Range(complexity_results.long_functions)

\* C19 witness: a function of complexity 10 and 51 lines is listed as long
\* only, one of complexity 11 and 50 lines as high-complexity only.
C19_Witness ==
    /\ ComplexityReturned
    /\ \E i, j \in DOMAIN all_functions :
         /\ all_functions[i].complexity = 10
         /\ all_functions[i].lines = 51
         /\ all_functions[i] \in Range(complexity_results.long_functions)
         /\ all_functions[i] \notin Range(complexity_results.high_complexity_functions)
         /\ all_functions[j].complexity = 11
         /\ all_functions[j].lines = 50
         /\ all_functions[j] \in Range(complexity_results.high_complexity_functions)
         /\ all_functions[j] \notin Range(complexity_results.long_functions)

\* The function records a member of a duplicate group stands for.
RecordsOf(member) ==
    {r \in Range(all_functions) :
        /\ r.name = member.name
        /\ r.module = member.module
        /\ r.file = member.file
        /\ r.line = member.line}

\* The members of the reported duplicate groups.
ReportedMembers ==
    UNION {Range(complexity_results.duplicates[g].functions) :
              g \in DOMAIN complexity_results.duplicates}

\* C20: every reported duplicate group has at least two members, its members
\* share one hash, one length and one complexity, and a function whose length
\* or complexity differs from another function of its hash is in no group.
C20_DuplicateGroupsAgree ==
    ComplexityReturned =>
        /\ \A g \in DOMAIN complexity_results.duplicates :
              LET group == complexity_results.duplicates[g]
                  members == UNION {RecordsOf(group.functions[k]) :
                                       k \in DOMAIN group.functions}
              IN  /\ group.count >= 2
                  /\ Len(group.functions) = group.count
                  /\ \A k \in DOMAIN group.functions : RecordsOf(group.functions[k]) # {}
                  /\ \A r1, r2 \in members :
                        /\ r1.hash = r2.hash
                        /\ r1.lines = r2.lines
                        /\ r1.complexity = r2.complexity
                  /\ \A r \in members :
                        r.lines = group.lines /\ r.complexity = group.complexity
        /\ \A r1, r2 \in Range(all_functions) :
              (r1.hash = r2.hash /\ (r1.lines # r2.lines \/ r1.complexity # r2.complexity))
                 => ~\E m \in ReportedMembers : r1 \in RecordsOf(m)

\* C20 witness: a group of two functions of one text was reported, while two
\* functions of one hash and different lengths, and two of one hash and
\* different complexities, were left out.
C20_Witness ==
    /\ ComplexityReturned
    /\ \E g \in DOMAIN complexity_results.duplicates :
          complexity_results.duplicates[g].count = 2
    /\ \E r1, r2 \in Range(all_functions) :
          /\ r1.hash = r2.hash
          /\ r1.lines # r2.lines
          /\ ~\E m \in ReportedMembers : r1 \in RecordsOf(m)
    /\ \E r1, r2 \in Range(all_functions) :
          /\ r1.hash = r2.hash
          /\ r1.complexity # r2.complexity
          /\ ~\E m \in ReportedMembers : r1 \in RecordsOf(m)

\* The configuration file is absent, or present without declaring a layer.
NoLayersDeclared ==
    \/ config_file = "absent"
    \/ config_file \in {"empty", "null_architecture", "null_layers"}
    \/ config_file = "mapping" /\ layers = <<>>

\* main() went through every stage and wrote its files.
RunCompleted == pc = "done"

\* C15: with the configuration file absent, or present but declaring no
\* layers, the violation detection is skipped without error: nothing is
\* raised, the violation list is empty, and the complexity stage, the data
\* file and the report are produced.
C15_NoLayersSkipsDetectionWithoutError ==
    NoLayersDeclared =>
        /\ pc # "traceback"
        /\ violations = <<>>
        /\ RunCompleted =>
              /\ complexity_results # EmptyDict
              /\ data_file
              /\ report_file

\* What the code does guarantee: without the file, and with a file whose
\* document is a mapping that yields an empty layer list, the run goes
\* through with no violation.
AbsentOrEmptyLayersSkipDetection ==
    (config_file = "absent" \/ (config_file = "mapping" /\ layers = <<>>)) =>
        /\ pc # "traceback"
        /\ violations = <<>>
        /\ module_to_layer = EmptyDict
        /\ RunCompleted =>
              /\ complexity_results # EmptyDict
              /\ data_file
              /\ report_file

\* C16: when the scanner finds no module the run ends at once with status 1:
\* neither the graph builder nor a detector has run, neither the data file
\* nor the report is written, and nothing follows.
C16_NoModulesIsAHardError ==
    /\ [](/\ (pc # "scan" /\ modules = <<>>) =>
               /\ pc = "exit1"
               /\ exit_status = 1
               /\ graph = EmptyDict
               /\ index = EmptyDict /\ sccs = <<>> /\ cycles = <<>>
               /\ god_modules = <<>>
               /\ module_to_layer = EmptyDict /\ violations = <<>>
               /\ all_functions = <<>> /\ complexity_results = EmptyDict
               /\ ~data_file
               /\ ~report_file
          /\ pc = "exit1" => modules = <<>>)
    /\ [][pc # "exit1"]_vars

\* C16 witness: the scan of a tree without a module directory ended the run
\* with status 1.
C16_Witness ==
    /\ pc = "exit1"
    /\ modules = <<>>
    /\ exit_status = 1
    /\ ~data_file /\ ~report_file

PathOfFile(f) == PathStr(f.dir \o <<f.name>>)

GraphBuilt == pc \notin {"scan", "analyze", "exit1"}

FunctionsAnalysed == pc \in {"output", "report", "exit", "done"}

\* The function definitions of a file that the analyzer records.
RecordedDefs(f) == {d \in Range(f.defs) : d.kind = "FunctionDef"}

\* C17: a file that cannot be read or parsed is passed over and the analysis
\* goes on: it adds no edge and no function record, the graph holds for
\* every module the builder reads exactly the edges of its parsable files,
\* every function of a parsable file beneath a module has its record, and
\* the run fails on account of no source file.
C17_UnparsableFilesAreSkipped ==
    /\ GraphBuilt =>
          \A n \in DOMAIN graph :
             \A T \in ModuleNames \ {n} :
                (T \in graph[n]) <=>
                   (\E d \in ImportedBeneath(SelfModules[n].path) : BeginsWith(d, T))
    /\ FunctionsAnalysed =>
          \A f \in files :
             IF f.ok
             THEN \A i \in DOMAIN modules :
                     IsPrefix(PathParts(modules[i].path), f.dir) =>
                        \A d \in RecordedDefs(f) :
                           \E r \in Range(all_functions) :
                              /\ r.file = PathOfFile(f)
                              /\ r.line = d.lineno
                              /\ r.name = d.name
                              /\ r.module = modules[i].name
             ELSE \A r \in Range(all_functions) : r.file # PathOfFile(f)
    /\ pc = "traceback" => LoadRaises(config_file)

\* C17 witness: the run completed on a tree where a module holds a file that
\* does not parse, with an import and a function in its text, next to a file
\* that parses and gave the module an edge and a function record, and where
\* another module has a function record.
C17_Witness ==
    /\ RunCompleted
    /\ \E f, g \in files :
         /\ ~f.ok /\ f.body # <<>> /\ f.defs # <<>>
         /\ g.ok /\ g.dir = f.dir
         /\ \E n \in DOMAIN graph :
               /\ SelfModules[n].path = PathStr(g.dir)
               /\ graph[n] # {}
               /\ \E r \in Range(all_functions) : r.file = PathOfFile(g) /\ r.module = n
               /\ \E r \in Range(all_functions) : r.module # n


\* The positions, in all_functions, of the records of a reported group.
GroupPositions(group) ==
    {i \in DOMAIN all_functions :
        \E k \in DOMAIN group.functions : all_functions[i] \in RecordsOf(group.functions[k])}

\* C21: two functions with the same whitespace-stripped hash, the same length
\* and the same complexity are reported together in one duplicate group: the
\* functions of a hash that agree in (length, complexity) survive the filter
\* and a surviving group of at least two is reported.
C21_AgreeingFunctionsAreGrouped ==
    ComplexityReturned =>
        \A i, j \in DOMAIN all_functions :
           (/\ i # j
            /\ all_functions[i].hash = all_functions[j].hash
            /\ all_functions[i].lines = all_functions[j].lines
            /\ all_functions[i].complexity = all_functions[j].complexity)
              => \E g \in DOMAIN complexity_results.duplicates :
                    {i, j} \subseteq GroupPositions(complexity_results.duplicates[g])

\* What _detect_duplicates does guarantee: the functions of a hash are
\* reported, all in one group, when every function of that hash has the
\* length and the complexity of the first.
WholeHashGroupsAreReported ==
    ComplexityReturned =>
        \A i \in DOMAIN all_functions :
           LET same == {j \in DOMAIN all_functions :
                           all_functions[j].hash = all_functions[i].hash}
           IN  (/\ Cardinality(same) >= 2
                /\ \A j \in same :
                      /\ all_functions[j].lines = all_functions[i].lines
                      /\ all_functions[j].complexity = all_functions[i].complexity)
                 => \E g \in DOMAIN complexity_results.duplicates :
                       GroupPositions(complexity_results.duplicates[g]) = same


\* The second run of main() has left the layer validation.
SecondRunValidated == earlier_results # <<>> /\ pc = "complexity"

\* The number of times v stands in the list.
Occurrences(list, v) == Cardinality({i \in DOMAIN list : list[i] = v})

\* C22: a second run of the pipeline (scan, graph build, cycle detection,
\* god-module detection, layer validation) on the unchanged tree and
\* configuration yields the graph, the set of cycle groups and the violation
\* list of the first run.
C22_RerunYieldsTheSameResults ==
    SecondRunValidated =>
        /\ graph = earlier_results[1].graph
        /\ ReportedGroups =
              {Range(earlier_results[1].cycles[i].modules) :
                  i \in DOMAIN earlier_results[1].cycles}
        /\ violations = earlier_results[1].violations

\* What the code does guarantee: the graph and the set of cycle groups of
\* the first run, and its violations, each as often, in some order.
RerunYieldsTheSameViolationsInSomeOrder ==
    SecondRunValidated =>
        /\ graph = earlier_results[1].graph
        /\ ReportedGroups =
              {Range(earlier_results[1].cycles[i].modules) :
                  i \in DOMAIN earlier_results[1].cycles}
        /\ Len(violations) = Len(earlier_results[1].violations)
        /\ \A v \in Range(violations) \cup Range(earlier_results[1].violations) :
              Occurrences(violations, v) = Occurrences(earlier_results[1].violations, v)


\* One of the four stages that follow the graph build is running.
StageRuns == pc \in {"cycle", "god", "arch", "complexity"}

\* C23: CycleDetector.detect, GodModuleDetector.detect,
\* ArchitectureValidator.validate and ComplexityAnalyzer.analyze only read
\* their inputs: no step of theirs changes the dependency graph, its nodes or
\* a dependency set, or the module list.
C23_StagesOnlyReadGraphAndModules ==
    [][StageRuns => (graph' = graph /\ modules' = modules)]_vars

\* C23 witness: the four stages have run over a graph with an edge and each
\* has produced a finding.
C23_Witness ==
    /\ pc = "output"
    /\ \E n \in DOMAIN graph : graph[n] # {}
    /\ cycles # <<>>
    /\ god_modules # <<>>
    /\ violations # <<>>
    /\ all_functions # <<>>


\* The four stages have returned and main() goes on with its output.
AllReturned == pc = "output" /\ Len(ReturnOrder) = Cardinality(Stages)

\* The graph analyze() builds from the module list and the files.
BuiltGraph ==
    [n \in DOMAIN SelfModules |->
        ExtractModuleDependencies(SelfModules[n].path, n)]

\* What analyze() of the complexity stage returns for a list of records.
ResultsOf(functions) ==
    [total_functions |-> Len(functions),
     avg_complexity |-> RoundAverage(SumOf(functions, "complexity"), Len(functions)),
     avg_length |-> RoundAverage(SumOf(functions, "lines"), Len(functions)),
     high_complexity_functions |-> SelectSeq(functions, IsHighComplexity),
     long_functions |-> SelectSeq(functions, IsLong),
     duplicates |-> DetectDuplicates(functions)]

\* C24: run in any order, with the steps of the cycle detection interleaved
\* with the other stages, each of the four stages returns what it returns in
\* main's order: the cycle groups of the graph as built, the god modules of
\* that graph, the violations of that graph under the configured layers, and
\* the complexity results of the files.
C24_StagesGiveTheirResultsInAnyOrder ==
    AllReturned =>
        /\ graph = BuiltGraph
        /\ ReportedGroups =
             {SccOf(BuiltGraph, n) : n \in {m \in DOMAIN BuiltGraph :
                                              Cardinality(SccOf(BuiltGraph, m)) > 1}}
        /\ Len(cycles) = Cardinality(ReportedGroups)
        /\ LET flagged == {m \in DOMAIN InDegrees :
                              OverThreshold(InDegrees[m], Cardinality(DOMAIN BuiltGraph))}
           IN  \E o \in Perms(flagged) :
                  god_modules = [i \in 1..Cardinality(flagged) |-> GodEntry(o[i])]
        /\ IF config_file = "absent"
           THEN violations = <<>> /\ module_to_layer = EmptyDict
           ELSE /\ module_to_layer = MapModulesToLayers(layers, modules)
                /\ \E dep_order \in Perms(UNION Range(BuiltGraph) \cap DOMAIN module_to_layer) :
                      LET edges == ClassifiedEdges(GraphKeys(modules, {}), dep_order,
                                                   module_to_layer)
                      IN  violations = DetectSkipLayer(edges, layers, module_to_layer)
                                       \o DetectReverseDependency(edges, module_to_layer)
        /\ \E file_order \in Perms(files) :
              /\ all_functions = AnalyzeModules(modules, file_order)
              /\ complexity_results = ResultsOf(all_functions)

\* C24 witness: the complexity stage returned first and the cycle detection
\* last, after it was suspended in mid-run while another stage returned, and
\* each stage produced a finding.
C24_Witness ==
    /\ AllReturned
    /\ ReturnOrder[1] = "complexity"
    /\ ReturnOrder[4] = "cycle"
    /\ \E i, j \in DOMAIN earlier_results :
          /\ i < j
          /\ earlier_results[i] = [of |-> "cycle", event |-> "suspended"]
          /\ earlier_results[j].event = "returned"
    /\ cycles # <<>>
    /\ god_modules # <<>>
    /\ violations # <<>>
    /\ all_functions # <<>>


\* u -> v is an edge of the graph.
IsEdgeOfGraph(u, v) == u \in DOMAIN graph /\ v \in graph[u]

\* C25: the path of every reported cycle is a walk through the component
\* back to its start: it begins and ends with the same module, has at least
\* three elements, each consecutive pair is an edge of the graph and each
\* element is a module of the cycle.
C25_PathIsAClosedWalkInTheComponent ==
    CycleDetectReturned =>
        \A i \in DOMAIN cycles :
           LET p == cycles[i].path
           IN  /\ Len(p) >= 3
               /\ p[1] = p[Len(p)]
               /\ \A k \in 1..(Len(p) - 1) : IsEdgeOfGraph(p[k], p[k + 1])
               /\ Range(p) \subseteq Range(cycles[i].modules)

\* C25 witness: a cycle of three modules was reported whose path goes
\* through two of them only and back.
C25_Witness ==
    /\ CycleDetectReturned
    /\ \E i \in DOMAIN cycles :
          /\ cycles[i].size = 3
          /\ Len(cycles[i].path) = 3
          /\ Range(cycles[i].path) # Range(cycles[i].modules)


ScanReturned == pc \notin {"scan"}

\* C26: scan() never returns two modules of one name, whatever code
\* directories hold them, so the graph has one node per scanned module.
C26_ModuleNamesAreUnique ==
    /\ ScanReturned =>
          \A i, j \in DOMAIN modules : modules[i].name = modules[j].name => i = j
    /\ AnalyzeReturned => Cardinality(DOMAIN graph) = Len(modules)

\* What the scanner does guarantee: no two modules have one path, and two
\* modules of one name lie in different code directories.
ModulePathsAreUnique ==
    ScanReturned =>
        \A i, j \in DOMAIN modules :
           /\ modules[i].path = modules[j].path => i = j
           /\ (modules[i].name = modules[j].name /\ i # j) =>
                 (LET pi == PathParts(modules[i].path)
                      pj == PathParts(modules[j].path)
                  IN  SubSeq(pi, 1, Len(pi) - 1) # SubSeq(pj, 1, Len(pj) - 1))


\* The list the first call of the detector returned.
FirstReturn(detector) ==
    earlier_results[CHOOSE i \in DOMAIN earlier_results :
                       earlier_results[i].of = detector].returned

\* The second call of the detector has returned.
SecondCycleDetectReturned == "CycleDetector" \in CalledTwice /\ pc \in {"god", "arch"}
SecondGodDetectReturned == "GodModuleDetector" \in CalledTwice /\ pc = "arch"

\* C27: a second detect() on the same CycleDetector, or on the same
\* GodModuleDetector, with the graph unchanged returns the list the first
\* call returned; no cycle group and no god module is in it twice.
C27_SecondDetectReturnsTheSameList ==
    /\ SecondCycleDetectReturned =>
          /\ Len(cycles) = Len(FirstReturn("CycleDetector"))
          /\ ReportedGroups =
                {Range(FirstReturn("CycleDetector")[i].modules) :
                    i \in DOMAIN FirstReturn("CycleDetector")}
          /\ \A i, j \in DOMAIN cycles : cycles[i].modules = cycles[j].modules => i = j
    /\ SecondGodDetectReturned =>
          /\ Len(god_modules) = Len(FirstReturn("GodModuleDetector"))
          /\ Range(god_modules) = Range(FirstReturn("GodModuleDetector"))
          /\ \A i, j \in DOMAIN god_modules :
                god_modules[i].name = god_modules[j].name => i = j

\* What the detectors do guarantee: the second call appends its findings to
\* those of the first, so the list begins with the list of the first call
\* and reports each cycle group and each god module twice.
SecondDetectAppendsToTheFirst ==
    /\ SecondCycleDetectReturned =>
          /\ SubSeq(cycles, 1, Len(FirstReturn("CycleDetector")))
                = FirstReturn("CycleDetector")
          /\ Len(cycles) = 2 * Len(FirstReturn("CycleDetector"))
          /\ \A i \in DOMAIN cycles :
                Cardinality({j \in DOMAIN cycles :
                                cycles[j].modules = cycles[i].modules}) = 2
    /\ SecondGodDetectReturned =>
          /\ SubSeq(god_modules, 1, Len(FirstReturn("GodModuleDetector")))
                = FirstReturn("GodModuleDetector")
          /\ Len(god_modules) = 2 * Len(FirstReturn("GodModuleDetector"))
          /\ \A i \in DOMAIN god_modules :
                Occurrences(god_modules, god_modules[i]) = 2


\* The run has ended: main() returned through sys.exit, or an exception left it.
RunExited == pc \in {"done", "exit1", "traceback"}

\* C28: a run over a non-empty module list has written the data file and
\* the report when it exits, and exits with a nonzero status exactly when a
\* cycle group was detected; god modules, violations and complexity findings
\* alone never make the status nonzero.
C28_FilesAreWrittenAndStatusTellsCycles ==
    (RunExited /\ modules # <<>>) =>
        /\ data_file
        /\ report_file
        /\ exit_status # 0 <=> cycles # <<>>

\* What main() does guarantee: a run that comes to its last line has written
\* both files and its status tells whether a cycle group was found, whatever
\* else was found; a run the configuration file stops has status 1 and has
\* written neither file.
CompletedRunsWriteFilesAndStatusTellsCycles ==
    /\ RunCompleted =>
          /\ modules # <<>>
          /\ data_file
          /\ report_file
          /\ exit_status = (IF cycles = <<>> THEN 0 ELSE 1)
    /\ pc = "traceback" =>
          /\ LoadRaises(config_file)
          /\ ~data_file
          /\ ~report_file
          /\ exit_status = 1
    /\ (RunCompleted /\ cycles = <<>>
           /\ god_modules # <<>> /\ violations # <<>>
           /\ complexity_results.duplicates # <<>>) => exit_status = 0


\* The function definitions of the scanned tree: a file and one of its defs.
DefinitionsOfTree == {<<f, d>> \in files \X UNION {Range(g.defs) : g \in files} :
                         d \in Range(f.defs)}

\* The records of the list that stand for the definition d of the file f.
RecordsOfDefinition(f, d) ==
    {i \in DOMAIN all_functions :
        /\ all_functions[i].file = PathOfFile(f)
        /\ all_functions[i].line = d.lineno
        /\ all_functions[i].name = d.name}

\* C29: every function definition of the scanned tree has at most one
\* record in the list of the run, whatever the layout of the modules, and no
\* duplicate group lists the same file and line twice.
C29_OneRecordPerDefinition ==
    ComplexityReturned =>
        /\ \A fd \in DefinitionsOfTree :
              Cardinality(RecordsOfDefinition(fd[1], fd[2])) <= 1
        /\ \A k \in DOMAIN complexity_results.duplicates :
              LET fs == complexity_results.duplicates[k].functions
              IN  \A i, j \in DOMAIN fs :
                     (fs[i].file = fs[j].file /\ fs[i].line = fs[j].line) => i = j

\* The modules of the list whose directory holds the file f, itself or in a
\* directory beneath it.
ModulesAbove(f) == {i \in DOMAIN modules : IsPrefix(PathParts(modules[i].path), f.dir)}

\* What the analyzer does guarantee: a definition has one record for each
\* module of the list whose directory it lies in or beneath, so one record
\* at most as long as no module directory lies inside another.
OneRecordPerDefinitionAndModuleAbove ==
    ComplexityReturned =>
        \A fd \in DefinitionsOfTree :
            Cardinality(RecordsOfDefinition(fd[1], fd[2])) =
                IF fd[1].ok THEN Cardinality(ModulesAbove(fd[1])) ELSE 0


\* GodModuleDetector.detect() of the run has returned.
GodStageDone == pc \in {"arch", "complexity", "output", "report", "exit", "done", "traceback"}

\* C30: after analyze() the keys of the graph are the names of the modules
\* given to the builder, a module without an outgoing edge included; so the
\* count N the god-module threshold and rate are computed with is the number
\* of those names, and no reported fan-in exceeds N - 1.
C30_EveryModuleIsANode ==
    /\ GraphBuilt =>
          /\ DOMAIN graph = ModuleNames
          /\ \A m \in ModuleNames : graph[m] \subseteq ModuleNames \ {m}
    /\ GodStageDone =>
          LET N == Cardinality(ModuleNames)
          IN  /\ \A m \in ModuleNames :
                    m \in GodNames <=> FanIn(m) * 100 > N * threshold
              /\ \A i \in DOMAIN god_modules :
                    /\ god_modules[i].dependents_count <= N - 1
                    /\ god_modules[i].dependency_rate =
                          RoundTenths(god_modules[i].dependents_count, N)

\* C30 witness: a run over the two modules a and b in which b has no
\* outgoing edge and is a key of the graph, and b is reported with the
\* fan-in 1 = N - 1 at the rate 50.0.
C30_Witness ==
    /\ pc = "arch"
    /\ ModuleNames = {NamePool[1], NamePool[2]}
    /\ DOMAIN graph = ModuleNames
    /\ graph[NamePool[2]] = {}
    /\ graph[NamePool[1]] = {NamePool[2]}
    /\ \E i \in DOMAIN god_modules :
          /\ god_modules[i].name = NamePool[2]
          /\ god_modules[i].dependents_count = 1
          /\ god_modules[i].dependency_rate = 500

====
